---------------------------- MODULE Spec2Model ----------------------------
(***************************************************************************)
(* A model of AeroPy's morphing module, aeropy/morphing/camber_2D.py:      *)
(* the dependent shape-coefficient solver, the strain evaluator and the    *)
(* shape-tracing fit.                                                      *)
(*                                                                         *)
(* Numbers.  The code computes with IEEE doubles.  The model computes with *)
(* exact rationals [n |-> numerator, d |-> denominator], d >= 0, in lowest *)
(* terms, extended with the three non-finite doubles: n/0 with n > 0 is    *)
(* +inf, n/0 with n < 0 is -inf and 0/0 is NaN.  Rounding and signed zeros *)
(* are not modelled; a tolerance of the code is an exact equality here.    *)
(*                                                                         *)
(* External primitives.  calculate_c_baseline, calculate_spar_distance,    *)
(* calculate_psi_goal, calculate_spar_direction, calculate_arc_length      *)
(* (aeropy.CST_2D.module) and CST (aeropy.geometry.airfoil) are imported   *)
(* by camber_2D.py, not defined in it.  Each is a pure function; what it   *)
(* returns on a morph is drawn once per behaviour (variable prim) from a   *)
(* small set of outcomes its contract allows.                              *)
(***************************************************************************)
EXTENDS Integers, Sequences, FiniteSets, TLC

VARIABLES
    args,   \* the caller's argument objects, shared by the calls in flight
    prim,   \* the behaviour of the external primitives in this run
    frame   \* frame[p]: program counter and locals of call p

vars == <<args, prim, frame>>

----------------------------------------------------------------------------
(* Extended rational arithmetic (the doubles of the code).                 *)

\* The arithmetic is written as functions of its operands, so that an operand
\* is a value when the body reads it, as a double is in the code.
Abs(i) == IF i < 0 THEN -i ELSE i

GCDOf[a \in Int, b \in Int] == IF b = 0 THEN a ELSE GCDOf[b, a % b]

GCD(a, b) == GCDOf[a, b]

NormOf[n \in Int, d \in Int] ==
    LET g == GCD(Abs(n), Abs(d))
        s == IF d < 0 THEN -1 ELSE 1
    IN  IF g = 0 THEN [n |-> 0, d |-> 0]
        ELSE [n |-> s * (n \div g), d |-> s * (d \div g)]

\* The double n/d in lowest terms, the sign carried by the numerator.
Norm(n, d) == NormOf[n, d]

Q(n, d) == Norm(n, d)
Zero == [n |-> 0, d |-> 1]
One == [n |-> 1, d |-> 1]
NaN == [n |-> 0, d |-> 0]
PosInf == [n |-> 1, d |-> 0]

Dbl == [n : Int, d : Int]

IsFinite(x) == x.d # 0

RNeg(x) == [n |-> -x.n, d |-> x.d]

RAddOf[x \in Dbl, y \in Dbl] ==
    IF x.d = 0 /\ y.d = 0
    THEN (IF x.n = y.n THEN x ELSE NaN)
    ELSE IF x.d = 0 THEN x
    ELSE IF y.d = 0 THEN y
    ELSE LET g == GCD(x.d, y.d)
         IN  Norm(x.n * (y.d \div g) + y.n * (x.d \div g), (x.d \div g) * y.d)

RAdd(x, y) == RAddOf[x, y]

RSub(x, y) == RAdd(x, RNeg(y))

RMulOf[x \in Dbl, y \in Dbl] ==
    IF x.d = 0 \/ y.d = 0
    THEN Norm(x.n * y.n, 0)
    ELSE LET g1 == GCD(Abs(x.n), y.d)
             g2 == GCD(Abs(y.n), x.d)
         IN  Norm((x.n \div g1) * (y.n \div g2), (x.d \div g2) * (y.d \div g1))

RMul(x, y) == RMulOf[x, y]

\* x / y as numpy divides doubles: x/0 is +-inf, 0/0 is NaN, no exception.
RDivOf[x \in Dbl, y \in Dbl] ==
    IF y.d = 0 THEN (IF x.d = 0 \/ y.n = 0 THEN NaN ELSE Zero)
    ELSE IF y.n = 0 THEN Norm(x.n, 0)
    ELSE RMul(x, Norm(y.d, y.n))

RDiv(x, y) == RDivOf[x, y]

\* x < y on doubles: false whenever either side is NaN.
RLtOf[x \in Dbl, y \in Dbl] ==
    IF (x.n = 0 /\ x.d = 0) \/ (y.n = 0 /\ y.d = 0) THEN FALSE
    ELSE IF x.d = 0 /\ y.d = 0 THEN x.n < y.n
    ELSE IF x.d = 0 \/ y.d = 0 THEN x.n * y.d < y.n * x.d
    ELSE LET g == GCD(x.d, y.d)
         IN  x.n * (y.d \div g) < y.n * (x.d \div g)

RLt(x, y) == RLtOf[x, y]

RAbs(x) == [n |-> Abs(x.n), d |-> x.d]

\* x ** k for an integer k >= 0; x ** 0 is 1 for every x, as in Python.
RPowOf[x \in Dbl, k \in Nat] == IF k = 0 THEN One ELSE RMul(x, RPowOf[x, k - 1])

RPow(x, k) == RPowOf[x, k]

\* The largest k in lo..hi with k * k <= m.
ISqrtIn[lo \in Nat, hi \in Nat, m \in Nat] ==
    IF lo >= hi THEN lo
    ELSE LET mid == (lo + hi + 1) \div 2
         IN  IF mid * mid <= m THEN ISqrtIn[mid, hi, m] ELSE ISqrtIn[lo, mid - 1, m]

ISqrt(m) == ISqrtIn[0, IF m < 46340 THEN m ELSE 46340, m]

IsSquare(m) == ISqrt(m) * ISqrt(m) = m

\* x ** 0.5 on doubles: exact on a ratio of perfect squares, rounded down to
\* a multiple of 1/16 otherwise; NaN below zero (numpy).
RSqrtOf[x \in Dbl] ==
    IF x.d = 0 THEN (IF x.n > 0 THEN x ELSE NaN)
    ELSE IF x.n < 0 THEN NaN
    ELSE IF IsSquare(x.n) /\ IsSquare(x.d) THEN Norm(ISqrt(x.n), ISqrt(x.d))
    ELSE Norm(ISqrt((x.n * 256) \div x.d), 16)

RSqrt(x) == RSqrtOf[x]

RECURSIVE RSum(_)
RSum(s) == IF s = <<>> THEN Zero ELSE RAdd(Head(s), RSum(Tail(s)))

----------------------------------------------------------------------------
(* Small matrices of doubles, as sequences of rows.                        *)

DropAt(s, k) == [i \in 1..(Len(s) - 1) |-> IF i < k THEN s[i] ELSE s[i + 1]]

\* M without row r and column c.
Minor(M, r, c) == [i \in 1..(Len(M) - 1) |-> DropAt(DropAt(M, r)[i], c)]

RECURSIVE Det(_)
Det(M) ==
    IF Len(M) = 0 THEN One
    ELSE IF Len(M) = 1 THEN M[1][1]
    ELSE RSum([c \in 1..Len(M) |->
                 RMul(IF c % 2 = 1 THEN M[1][c] ELSE RNeg(M[1][c]),
                      Det(Minor(M, 1, c)))])

\* numpy.linalg.inv of a non-singular matrix: the adjugate over the determinant.
MatInv(M) ==
    [i \in 1..Len(M) |-> [k \in 1..Len(M) |->
        RDiv(RMul(IF (i + k) % 2 = 0 THEN One ELSE RNeg(One), Det(Minor(M, k, i))),
             Det(M))]]

\* numpy.dot of a square matrix and a column vector.
MatVec(M, v) == [i \in 1..Len(M) |-> RSum([k \in 1..Len(v) |-> RMul(M[i][k], v[k])])]

----------------------------------------------------------------------------
(* The external primitives, from their contracts.                          *)

RECURSIVE Factorial(_)
Factorial(k) == IF k <= 0 THEN 1 ELSE k * Factorial(k - 1)

\* The Bernstein basis polynomial of index r and order m at psi.
Bernstein(r, m, psi) ==
    RMul(Q(Factorial(m), Factorial(r) * Factorial(m - r)),
         RMul(RPow(psi, r), RPow(RSub(One, psi), m - r)))

\* The shape function of a coefficient set A (order Len(A) - 1) at psi.
Shape(A, psi) == RSum([i \in 1..Len(A) |-> RMul(A[i], Bernstein(i - 1, Len(A) - 1, psi))])

\* The class function psi^N1 * (1 - psi)^N2 with the default N1 = 0.5, N2 = 1.
ClassFn(psi) == RMul(RSqrt(psi), RSub(One, psi))

\* CST(psi, 1., deltasz = [dz, dz], Al, Au): the heights of the two surfaces.
CST(psi, dz, Al, Au) ==
    [u |-> RAdd(RMul(ClassFn(psi), Shape(Au, psi)), RMul(psi, dz)),
     l |-> RNeg(RAdd(RMul(ClassFn(psi), Shape(Al, psi)), RMul(psi, dz)))]

\* The chords the baseline-chord primitive may return, as multiples of c_P.
ChordFactors == {Q(1, 1), Q(4, 1)}

\* The leading coefficients the fixed-point loop can hold for a parent Au_P.
ACValues(Au_P) ==
    IF Au_P = <<>> THEN {}
    ELSE {Au_P[1]} \cup {RMul(RSqrt(RDiv(One, k)), Au_P[1]) : k \in ChordFactors}

\* A positive chord; the parent's own chord when the child is the parent.
calculate_c_baseline(c_P, Au_C, Au_P, deltaz) ==
    IF Au_C = Au_P THEN c_P ELSE RMul(c_P, prim.baseline[Au_C[1]])

\* The unit vector of a spar after the morph from A_a to A_b: vertical when
\* nothing morphs.
calculate_spar_direction(psi, A_a, A_b, deltaz, c) ==
    IF A_a = A_b THEN <<Zero, One>> ELSE prim.direction

\* A station moved towards the leading edge.
ShiftedStation(psi) == RDiv(psi, Q(2, 1))

\* The station of the target surface that is the same material point as psi:
\* psi itself when nothing morphs.
calculate_psi_goal(psi, A_src, A_tgt, deltaz, c_src, c_tgt) ==
    IF A_src = A_tgt /\ c_src = c_tgt THEN psi
    ELSE IF prim.goal = "same" THEN psi ELSE ShiftedStation(psi)

\* The distance from the upper to the lower surface of the parent along the
\* spar direction at psi, in the units of the chord.
calculate_spar_distance(psi, Au_C, Au_P, Al_P, deltaz, c_P) ==
    LET xi == CST(psi, RDiv(RDiv(deltaz, Q(2, 1)), c_P), Al_P, Au_P)
        s == calculate_spar_direction(psi, Au_C, Au_P, deltaz, c_P)
    IN  RDiv(RMul(c_P, RSub(xi.u, xi.l)), s[2])

\* The arc length of a surface between two bounds: additive over adjacent
\* intervals, growing with the interval, the chord and the coefficients.
calculate_arc_length(psi_i, psi_f, A, deltaz, c) ==
    RMul(RMul(c, RSub(psi_f, psi_i)),
         RAdd(One, RSum([i \in 1..Len(A) |-> RAbs(A[i])])))

----------------------------------------------------------------------------
(* calculate_dependent_shape_coefficients.                                 *)

\* lst.insert(0, x) in place of [x] + lst: the operand list is the new list.
PrependInPlace(x, lst) == [new |-> <<x>> \o lst, operand |-> <<x>> \o lst]

\* [x] + lst: the new list, and the operand list as the expression leaves it.
Prepend(x, lst) == [new |-> <<x>> \o lst, operand |-> lst]

\* The coefficient without the factorial of n - r.
KWithoutRest(r, n) == Q(Factorial(n), Factorial(r))

\* The Bernstein coefficient K(r, n) = n! / (r! (n - r)!).
K(r, n) == Q(Factorial(n), Factorial(r) * Factorial(n - r))

\* The leading coefficient taken over from the parent without the chord ratio.
calculate_AC_u0_unscaled(AC_u0) == args.Au_P[1]

\* The inner function calculate_AC_u0 of the solver.
calculate_AC_u0(AC_u0) ==
    LET Au_C == Prepend(AC_u0, args.Au_C_1_to_n).new
        c_C == calculate_c_baseline(args.c_P, Au_C, args.Au_P, args.deltaz)
    IN  RMul(RSqrt(RDiv(args.c_P, c_C)), args.Au_P[1])

\* The denominator of the loop's tolerance, 1e-9.
TolDen == 1000000000

\* A loop that stops as soon as two successive values are within 1 of each other.
ExceedsTolCoarse(e) == e.n > 0 /\ (e.d = 0 \/ e.d \div e.n < 1)

\* error > 1e-9 on doubles (false for NaN); e is never negative.
ExceedsTol(e) == e.n > 0 /\ (e.d = 0 \/ e.d \div e.n < TolDen)

\* The locals of a call that has not started.
NewFrame ==
    [pc |-> "entry", n |-> 0, error |-> Zero, AC_u0 |-> Zero, before |-> Zero,
     Au_C |-> <<>>, c_C |-> Zero, AC_l0 |-> Zero, A0 |-> Zero,
     spar_thicknesses |-> <<>>, j |-> 0, b_list |-> <<>>, f |-> <<>>,
     psi_upper_children |-> <<>>, xi_upper_children |-> <<>>,
     psi_lower_children |-> <<>>, xi_lower_children |-> <<>>,
     Al_C |-> <<>>, Al_C_bound |-> FALSE, did |-> {}, exc |-> "",
     ret |-> [Au_C |-> <<>>, Al_C |-> <<>>, c_C |-> Zero, spar_thicknesses |-> <<>>],
     psi_flats |-> <<>>, initial_lengths |-> <<>>, final_lengths |-> <<>>,
     strains |-> <<>>, av_strain |-> Zero,
     Psi |-> <<>>, Xi |-> <<>>, EndThickness |-> Zero, T |-> <<>>, t |-> <<>>, A |-> <<>>]

Raise(f, e) == [f EXCEPT !.pc = "raised", !.exc = e]

Zeros(n) == [i \in 1..n |-> Zero]

\* Lines 45-52: the order n, the first guess of the fixed-point loop.
EnterFrame(f) ==
    IF args.Au_P = <<>> THEN Raise(f, "IndexError")
    ELSE [f EXCEPT !.pc = "while", !.n = Len(args.Au_C_1_to_n),
                   !.error = Q(9999, 1), !.AC_u0 = args.Au_P[1]]

\* Lines 54-56: one pass of the body of the while loop.
IterateFrame(f) ==
    LET next == calculate_AC_u0(f.AC_u0)
    IN  [f EXCEPT !.before = f.AC_u0, !.AC_u0 = next,
                  !.error = RAbs(RSub(next, f.AC_u0)),
                  !.did = f.did \cup {"iterate"}]

\* Lines 59-74 and 99: the child chord, the leading coefficients, the branch.
AfterLoopFrame(f) ==
    LET Au_C == Prepend(f.AC_u0, args.Au_C_1_to_n).new
        c_C == calculate_c_baseline(args.c_P, Au_C, args.Au_P, args.deltaz)
        AC_l0 == RMul(RSqrt(RDiv(args.c_P, c_C)), args.Al_P[1])
    IN  IF args.Al_P = <<>> THEN Raise(f, "IndexError")
        ELSE [f EXCEPT !.Au_C = Au_C, !.c_C = c_C, !.AC_l0 = AC_l0,
                       !.spar_thicknesses = <<>>, !.A0 = RAdd(f.AC_u0, AC_l0),
                       !.j = 0, !.b_list = Zeros(f.n),
                       !.pc = IF args.morphing = "backwards" THEN "bw_for"
                              ELSE IF args.morphing = "forwards" THEN "fw_map"
                              ELSE "return"]

\* Line 82, the right-hand side of spar j from its thickness t_j.
BackwardsRhs(f, psi_j, t_j) ==
    RSub(RDiv(RSub(RDiv(t_j, f.c_C), RDiv(RMul(psi_j, args.deltaz), f.c_C)),
              RMul(RSqrt(psi_j), RSub(One, psi_j))),
         RMul(f.A0, RPow(RSub(One, psi_j), f.n)))

\* The thickness the backwards branch measures for a spar (line 79).
BackwardsThickness(f, psi_j) ==
    calculate_spar_distance(psi_j, f.Au_C, args.Au_P, args.Al_P, args.deltaz, args.c_P)

\* Lines 75-82: one pass of the backwards loop over the spars.
BackwardsSparFrame(f) ==
    LET psi_j == args.psi_spars[f.j + 1]
        t_j == BackwardsThickness(f, psi_j)
        g == [f EXCEPT !.spar_thicknesses = Append(f.spar_thicknesses, t_j),
                       !.did = f.did \cup {"measure"}]
    IN  IF RMul(RSqrt(psi_j), RSub(One, psi_j)) = Zero /\ ~prim.numpy_scalars
        THEN Raise(g, "ZeroDivisionError")
        ELSE IF f.j + 1 > f.n THEN Raise(g, "IndexError")
        ELSE [g EXCEPT !.b_list[f.j + 1] = BackwardsRhs(f, psi_j, t_j), !.j = f.j + 1]

\* The matrix entry with the column taken as the Bernstein index (r = i).
MatrixEntryFromZero(i, n, psi) ==
    RMul(RMul(K(i, n), RPow(psi, i)), RPow(RSub(One, psi), n - i))

\* Lines 91 and 149: the entry of row psi, column i (0-based) of the matrix.
MatrixEntry(i, n, psi) ==
    LET r == i + 1
    IN  RMul(RMul(K(r, n), RPow(psi, r)), RPow(RSub(One, psi), n - r))

BernsteinMatrix(n, stations) ==
    [j \in 1..n |-> [i \in 1..n |-> MatrixEntry(i - 1, n, stations[j])]]

\* The backwards assembly without the subtraction of the upper coefficients.
AssembleBackwardsNoSubtract(AC_l0, A_bar, Au_C) == <<AC_l0>> \o A_bar

\* Lines 95-97: the child's lower coefficients from the solution A_bar.
AssembleBackwards(AC_l0, A_bar, Au_C) ==
    <<AC_l0>> \o [i \in 1..Len(A_bar) |-> RSub(A_bar[i], Au_C[i + 1])]

\* Lines 84-97: the matrix B, its inverse, the lower coefficients.
BackwardsSolveFrame(f) ==
    LET B == BernsteinMatrix(f.n, args.psi_spars)
        g == [f EXCEPT !.did = f.did \cup {"matrix"}]
        h == [g EXCEPT !.did = g.did \cup {"inv"}]
    IN  IF Len(args.psi_spars) < f.n THEN Raise(g, "IndexError")
        ELSE IF Det(B) = Zero THEN Raise(h, "LinAlgError")
        ELSE [h EXCEPT !.Al_C = AssembleBackwards(f.AC_l0, MatVec(MatInv(B), f.b_list), f.Au_C),
                       !.Al_C_bound = TRUE, !.pc = "return"]

\* Lines 100-115: the chord again, the spars mapped onto the child's upper surface.
ForwardsMapFrame(fr) ==
    LET c_C == calculate_c_baseline(args.c_P, fr.Au_C, args.Au_P, args.deltaz)
        psi_u == [j \in 1..Len(args.psi_spars) |->
                    calculate_psi_goal(args.psi_spars[j], args.Au_P, fr.Au_C,
                                       args.deltaz, args.c_P, c_C)]
        dz == RDiv(RDiv(args.deltaz, Q(2, 1)), c_C)
    IN  [fr EXCEPT !.f = Zeros(fr.n), !.c_C = c_C, !.j = 0,
                   !.psi_lower_children = <<>>, !.xi_lower_children = <<>>,
                   !.psi_upper_children = psi_u,
                   !.xi_upper_children =
                       [j \in 1..Len(psi_u) |-> CST(psi_u[j], dz, fr.Au_C, fr.Au_C).u],
                   !.pc = "fw_for"]

\* Lines 128-129: the vertical distance between the parent's surfaces at spar j.
ParentDelta(psi_j) ==
    LET xi_parent == CST(psi_j, RDiv(RDiv(args.deltaz, Q(2, 1)), args.c_P),
                         args.Al_P, args.Au_P)
    IN  RSub(xi_parent.u, xi_parent.l)

\* The forwards thickness without the scaling by the parent chord.
ForwardsThicknessUnscaled(psi_j) == ParentDelta(psi_j)

\* The thickness the forwards branch records for a spar (line 130).
ForwardsThickness(psi_j) == RMul(args.c_P, ParentDelta(psi_j))

\* Line 140, the right-hand side of a spar that lands at (psi_l_j, xi_l_j).
ForwardsRhs(fr, psi_l_j, xi_l_j) ==
    RSub(RDiv(RAdd(RMul(Q(2, 1), xi_l_j), RDiv(RMul(psi_l_j, args.deltaz), fr.c_C)),
              RMul(RMul(Q(2, 1), RSqrt(psi_l_j)), RSub(psi_l_j, One))),
         RMul(fr.AC_l0, RPow(RSub(One, psi_l_j), fr.n)))

\* Lines 127-140: one pass of the forwards loop over the spars.
ForwardsSparFrame(fr) ==
    LET psi_j == args.psi_spars[fr.j + 1]
        delta_j_P == ParentDelta(psi_j)
        t_j == ForwardsThickness(psi_j)
        s_j == calculate_spar_direction(psi_j, args.Au_P, fr.Au_C, args.deltaz, fr.c_C)
        psi_l_j == RSub(fr.psi_upper_children[fr.j + 1], RMul(RDiv(delta_j_P, fr.c_C), s_j[1]))
        xi_l_j == RSub(fr.xi_upper_children[fr.j + 1], RMul(RDiv(delta_j_P, fr.c_C), s_j[2]))
        g == [fr EXCEPT !.spar_thicknesses = Append(fr.spar_thicknesses, t_j),
                        !.psi_lower_children = Append(fr.psi_lower_children, psi_l_j),
                        !.xi_lower_children = Append(fr.xi_lower_children, xi_l_j),
                        !.did = fr.did \cup {"measure"}]
    IN  IF ~prim.numpy_scalars /\ RMul(RSqrt(RAbs(psi_l_j)), RSub(psi_l_j, One)) = Zero
        THEN Raise(g, "ZeroDivisionError")
        ELSE IF fr.j + 1 > fr.n THEN Raise(g, "IndexError")
        ELSE IF ~prim.numpy_scalars /\ RLt(psi_l_j, Zero) THEN Raise(g, "TypeError")
        ELSE [g EXCEPT !.f[fr.j + 1] = ForwardsRhs(fr, psi_l_j, xi_l_j), !.j = fr.j + 1]

\* The forwards assembly without the leading coefficient AC_l0.
AssembleForwardsNoLead(AC_l0, A_lower) == A_lower

\* Lines 153-155: the child's lower coefficients from the solution A_lower.
AssembleForwards(AC_l0, A_lower) == <<AC_l0>> \o A_lower

\* Lines 142-155: the matrix F, its inverse, the lower coefficients.
ForwardsSolveFrame(fr) ==
    LET F == BernsteinMatrix(fr.n, fr.psi_lower_children)
        g == [fr EXCEPT !.did = fr.did \cup {"matrix"}]
        h == [g EXCEPT !.did = g.did \cup {"inv"}]
    IN  IF Len(fr.psi_lower_children) < fr.n THEN Raise(g, "IndexError")
        ELSE IF Det(F) = Zero THEN Raise(h, "LinAlgError")
        ELSE [h EXCEPT !.Al_C = AssembleForwards(fr.AC_l0, MatVec(MatInv(F), fr.f)),
                       !.Al_C_bound = TRUE, !.pc = "return"]

\* A return of whatever Al_C holds, bound or not.
ReturnStaleFrame(fr) ==
    [fr EXCEPT !.pc = "returned",
               !.ret = [Au_C |-> fr.Au_C, Al_C |-> fr.Al_C, c_C |-> fr.c_C,
                        spar_thicknesses |-> fr.spar_thicknesses]]

\* Line 156: the result tuple; Al_C is bound only by the two branches.
ReturnFrame(fr) ==
    IF ~fr.Al_C_bound THEN Raise(fr, "UnboundLocalError")
    ELSE [fr EXCEPT !.pc = "returned",
                    !.ret = [Au_C |-> fr.Au_C, Al_C |-> fr.Al_C, c_C |-> fr.c_C,
                             spar_thicknesses |-> fr.spar_thicknesses]]

----------------------------------------------------------------------------
(* calculate_strains.                                                      *)

\* The locals of a call of calculate_strains at its first loop (line 194).
NewStrainFrame == [NewFrame EXCEPT !.pc = "st_for"]

\* Lines 196-202: one pass of the loop over the spars, the landing point of
\* spar j on the lower surface.
StrainSparFrame(f) ==
    LET psi_parent_j == args.psi_spars[f.j + 1]
        psi_children_j == calculate_psi_goal(psi_parent_j, args.Au_P, args.Au_C,
                                             args.deltaz, args.c_P, args.c_C)
        x_children_j == RMul(psi_children_j, args.c_C)
        s == calculate_spar_direction(psi_parent_j, args.Au_P, args.Au_C,
                                      args.deltaz, args.c_C)
    IN  IF f.j + 1 > Len(args.spar_thicknesses) THEN Raise(f, "IndexError")
        ELSE [f EXCEPT !.j = f.j + 1,
                       !.psi_flats = Append(f.psi_flats,
                           RSub(x_children_j, RMul(args.spar_thicknesses[f.j + 1], s[1])))]

\* Lines 205-208: the bounds [0.] + psi_spars + [c_P] and the parent's lengths.
StrainInitialFrame(f) ==
    LET psi_list == Prepend(Zero, args.psi_spars).new \o <<args.c_P>>
    IN  [f EXCEPT !.initial_lengths =
                      [i \in 1..(Len(psi_list) - 1) |->
                          calculate_arc_length(psi_list[i], psi_list[i + 1],
                                               args.Al_P, args.deltaz, args.c_P)],
                  !.pc = "st_final"]

\* Lines 211-214: the bounds [0.] + psi_flats + [c_C], scaled by c_P/c_C, and
\* the child's lengths.
StrainFinalFrame(f) ==
    LET psi_list == Prepend(Zero, f.psi_flats).new \o <<args.c_C>>
    IN  [f EXCEPT !.final_lengths =
                      [i \in 1..(Len(psi_list) - 1) |->
                          calculate_arc_length(
                              RDiv(RMul(psi_list[i], args.c_P), args.c_C),
                              RDiv(RMul(psi_list[i + 1], args.c_P), args.c_C),
                              args.Al_C, args.deltaz, args.c_C)],
                  !.pc = "st_strains"]

\* Line 220: the strain of one segment.
SegmentStrain(final, initial) == RDiv(RSub(final, initial), initial)

\* The mean of the strains of the segments.
MeanStrain(strains, final_lengths, initial_lengths) ==
    RDiv(RSum(strains), Q(Len(strains), 1))

\* Line 221: the average strain.
AverageStrain(strains, final_lengths, initial_lengths) ==
    RDiv(RSub(RSum(final_lengths), RSum(initial_lengths)), RSum(initial_lengths))

\* Lines 217-225: the strains, the average strain, the result.
StrainReturnFrame(f) ==
    LET strains == [i \in 1..Len(f.final_lengths) |->
                        SegmentStrain(f.final_lengths[i], f.initial_lengths[i])]
    IN  IF ~prim.numpy_scalars
           /\ \/ \E i \in 1..Len(f.final_lengths) : f.initial_lengths[i] = Zero
              \/ RSum(f.initial_lengths) = Zero
        THEN Raise(f, "ZeroDivisionError")
        ELSE [f EXCEPT !.strains = strains,
                       !.av_strain = AverageStrain(strains, f.final_lengths, f.initial_lengths),
                       !.pc = "returned"]

----------------------------------------------------------------------------
(* calculate_shape_coefficients_tracing.                                   *)

\* x ** e for the exponents the class function is used with: 0.5 or an integer.
RPowF(x, e) == IF e = Q(1, 2) THEN RSqrt(x) ELSE RPow(x, e.n)

\* The locals of a call of the tracing fit that has not started.
NewTracingFrame == [NewFrame EXCEPT !.pc = "tr_entry"]

\* Lines 170-178: n, the points over the chord, the empty system.
TracingEnterFrame(f) ==
    LET n == Len(args.x)
    IN  [f EXCEPT !.n = n,
                  !.Psi = [i \in 1..n |-> RDiv(args.x[i], args.chord)],
                  !.Xi = [i \in 1..Len(args.y) |-> RDiv(args.y[i], args.chord)],
                  !.EndThickness = RDiv(args.EndThickness, args.chord),
                  !.T = [jj \in 1..n |-> Zeros(n)], !.t = Zeros(n),
                  !.j = 1, !.pc = "tr_for"]

\* Line 185: the right-hand side of the point (Psi, Xi); numpy's division.
TracingRhs(f, Psi, Xi) ==
    RSub(RDiv(RSub(Xi, RMul(Psi, f.EndThickness)),
              RMul(RPowF(Psi, args.N1), RPowF(RSub(One, Psi), args.N2))),
         RMul(args.A0, RPow(RSub(One, Psi), f.n)))

\* Lines 179-185: row j of the matrix T and of the right-hand side t.
TracingRowFrame(f) ==
    LET jj == f.j
    IN  IF jj > Len(f.Xi) THEN Raise(f, "IndexError")
        ELSE [f EXCEPT !.T[jj] = [i \in 1..f.n |-> MatrixEntry(i - 1, f.n, f.Psi[jj])],
                       !.t[jj] = TracingRhs(f, f.Psi[jj], f.Xi[jj]),
                       !.j = f.j + 1]

\* The fit without the given leading coefficient.
TracingSolveNoLead(f) ==
    IF Det(f.T) = Zero THEN Raise(f, "LinAlgError")
    ELSE [f EXCEPT !.A = MatVec(MatInv(f.T), f.t), !.pc = "returned"]

\* Lines 187-189: the inverse of T, the coefficients after A0.
TracingSolveFrame(f) ==
    IF Det(f.T) = Zero THEN Raise(f, "LinAlgError")
    ELSE [f EXCEPT !.A = Prepend(args.A0, MatVec(MatInv(f.T), f.t)).new,
                   !.pc = "returned"]

----------------------------------------------------------------------------
(* The inputs of the solver and the behaviours of the primitives.          *)

\* The largest order n of the free coefficients, of the parents and the
\* largest number of spar stations.
MaxN == 2

\* Parent coefficient sets of order m, in the style of the module's demo.
ParentUpper(m) == [i \in 1..(m + 1) |-> IF i % 2 = 1 THEN Q(1, 2) ELSE Q(1, 4)]
ParentLower(m) == [i \in 1..(m + 1) |-> IF i % 2 = 1 THEN Q(1, 4) ELSE Q(-1, 4)]

\* The free upper coefficients: the parent's own, or one value throughout.
FreeUpper(n) == {Tail(ParentUpper(n)), [i \in 1..n |-> Q(1, 2)]}

\* Spar stations: inside (0,1), on its end, and beyond it.
StationValues == {Q(1, 4), Q(3, 4), Q(1, 1), Q(9, 4)}

\* Parent chord and trailing-edge gap.
Scalars == {<<One, Zero>>, <<Q(4, 1), Q(1, 4)>>}

\* Line 31: the value of morphing in a call that does not pass it.
Omitted == "(omitted)"
DefaultMorphing == "backwards"
BindMorphing(passed) == IF passed = Omitted THEN DefaultMorphing ELSE passed

\* The field passed keeps what the caller wrote for morphing.  A call that
\* leaves morphing out is explored on the parents of order 1.
SolverInputs ==
    { a \in
        { [Au_C_1_to_n |-> free, psi_spars |-> spars, Au_P |-> ParentUpper(m),
           Al_P |-> ParentLower(m), deltaz |-> sc[2], c_P |-> sc[1],
           morphing |-> BindMorphing(dir), passed |-> dir] :
            free \in UNION {FreeUpper(n) : n \in 1..MaxN},
            spars \in UNION {[1..k -> StationValues] : k \in 1..MaxN},
            m \in 1..MaxN, sc \in Scalars,
            dir \in {"backwards", "forwards", "sideways", Omitted} } :
        a.passed = Omitted => Len(a.Au_P) = 2 }

\* What the primitives return in one run: the chord for each leading
\* coefficient, the direction of a morphed spar, the station mapping, and
\* whether their results are numpy scalars or Python floats.
\* A slanted spar in the forwards branch is explored for order 1, no
\* trailing-edge gap and unmoved stations only: beyond that the exact fractions of the landing
\* points leave TLC's integers.
SlantedExplored(a) ==
    \/ a.morphing # "forwards"
    \/ Len(a.Au_C_1_to_n) = 1 /\ Len(a.Au_P) = 2 /\ a.deltaz = Zero

HasEndStation(a) == \E j \in 1..Len(a.psi_spars) : a.psi_spars[j] = One

\* A primitive a call never reaches is given one behaviour: the station
\* mapping is called by the forwards branch only, no primitive after the loop
\* by a call with another direction, and the kind of scalar shows only where a
\* denominator can vanish.
PrimBehaviours(a) ==
    { b \in [baseline : [ACValues(a.Au_P) -> ChordFactors],
             direction : IF SlantedExplored(a) /\ a.morphing \in {"backwards", "forwards"}
                         THEN {<<Zero, One>>, <<Q(3, 5), Q(4, 5)>>}
                         ELSE {<<Zero, One>>},
             goal : IF a.morphing = "forwards" THEN {"same", "shifted"} ELSE {"same"},
             numpy_scalars : IF a.morphing = "forwards"
                                \/ (a.morphing = "backwards" /\ HasEndStation(a))
                             THEN BOOLEAN ELSE {TRUE}] :
        a.morphing = "forwards" /\ b.goal = "shifted" => b.direction = <<Zero, One>> }

\* The calls in flight: one, or two on the same arguments.
OneCall == {1}
TwoCalls == {1, 2}

Init ==
    /\ args \in SolverInputs
    /\ prim \in PrimBehaviours(args)
    /\ frame = [p \in OneCall |-> NewFrame]

\* The argument list Au_C_1_to_n after the expression [AC_u0] + Au_C_1_to_n.
ArgsAfterPrepend(p) ==
    [args EXCEPT !.Au_C_1_to_n = Prepend(frame[p].AC_u0, args.Au_C_1_to_n).operand]

Enter(p) ==
    /\ frame[p].pc = "entry"
    /\ frame' = [frame EXCEPT ![p] = EnterFrame(frame[p])]
    /\ UNCHANGED <<args, prim>>

Iterate(p) ==
    /\ frame[p].pc = "while"
    /\ ExceedsTol(frame[p].error)
    /\ frame' = [frame EXCEPT ![p] = IterateFrame(frame[p])]
    /\ args' = ArgsAfterPrepend(p)
    /\ UNCHANGED prim

AfterLoop(p) ==
    /\ frame[p].pc = "while"
    /\ ~ExceedsTol(frame[p].error)
    /\ frame' = [frame EXCEPT ![p] = AfterLoopFrame(frame[p])]
    /\ args' = ArgsAfterPrepend(p)
    /\ UNCHANGED prim

BackwardsSpar(p) ==
    /\ frame[p].pc = "bw_for"
    /\ frame[p].j < Len(args.psi_spars)
    /\ frame' = [frame EXCEPT ![p] = BackwardsSparFrame(frame[p])]
    /\ UNCHANGED <<args, prim>>

BackwardsSolve(p) ==
    /\ frame[p].pc = "bw_for"
    /\ frame[p].j >= Len(args.psi_spars)
    /\ frame' = [frame EXCEPT ![p] = BackwardsSolveFrame(frame[p])]
    /\ UNCHANGED <<args, prim>>

ForwardsMap(p) ==
    /\ frame[p].pc = "fw_map"
    /\ frame' = [frame EXCEPT ![p] = ForwardsMapFrame(frame[p])]
    /\ UNCHANGED <<args, prim>>

ForwardsSpar(p) ==
    /\ frame[p].pc = "fw_for"
    /\ frame[p].j < Len(args.psi_spars)
    /\ frame' = [frame EXCEPT ![p] = ForwardsSparFrame(frame[p])]
    /\ UNCHANGED <<args, prim>>

ForwardsSolve(p) ==
    /\ frame[p].pc = "fw_for"
    /\ frame[p].j >= Len(args.psi_spars)
    /\ frame' = [frame EXCEPT ![p] = ForwardsSolveFrame(frame[p])]
    /\ UNCHANGED <<args, prim>>

Return(p) ==
    /\ frame[p].pc = "return"
    /\ frame' = [frame EXCEPT ![p] = ReturnFrame(frame[p])]
    /\ UNCHANGED <<args, prim>>

Step(p) ==
    \/ Enter(p)
    \/ Iterate(p)
    \/ AfterLoop(p)
    \/ BackwardsSpar(p)
    \/ BackwardsSolve(p)
    \/ ForwardsMap(p)
    \/ ForwardsSpar(p)
    \/ ForwardsSolve(p)
    \/ Return(p)

Next == \E p \in OneCall : Step(p)

Spec == Init /\ [][Next]_vars

----------------------------------------------------------------------------
(* Calls of calculate_strains.                                             *)

\* The chord times the height of the parent's upper over its lower surface.
ParentThickness(Au_P, Al_P, c_P, deltaz, psi) ==
    LET xi == CST(psi, RDiv(RDiv(deltaz, Q(2, 1)), c_P), Al_P, Au_P)
    IN  RMul(c_P, RSub(xi.u, xi.l))

\* The child of a parent of order m: the parent itself, a morphed upper
\* surface on the same chord, both surfaces morphed on twice the chord.
StrainChildren(m) ==
    { [Au |-> ParentUpper(m), Al |-> ParentLower(m), k |-> One],
      [Au |-> [i \in 1..(m + 1) |-> Q(1, 2)], Al |-> ParentLower(m), k |-> One],
      [Au |-> [i \in 1..(m + 1) |-> Q(1, 2)], Al |-> [i \in 1..(m + 1) |-> Q(1, 4)],
       k |-> Q(2, 1)] }

\* The thicknesses handed over are the ones measured on the parent.
StrainInputs ==
    { [Au_P |-> ParentUpper(m), Al_P |-> ParentLower(m), c_P |-> sc[1],
       Au_C |-> ch.Au, Al_C |-> ch.Al, c_C |-> RMul(sc[1], ch.k),
       deltaz |-> sc[2], psi_spars |-> spars,
       spar_thicknesses |->
           [j \in 1..Len(spars) |->
               ParentThickness(ParentUpper(m), ParentLower(m), sc[1], sc[2], spars[j])]] :
        m \in 1..MaxN, ch \in UNION {StrainChildren(k) : k \in 1..MaxN},
        sc \in Scalars,
        spars \in UNION {[1..k -> StationValues] : k \in 1..MaxN} }

StrainPrimBehaviours(a) ==
    [baseline : [ACValues(a.Au_P) -> {One}],
     direction : {<<Zero, One>>, <<Q(3, 5), Q(4, 5)>>},
     goal : {"same", "shifted"},
     numpy_scalars : BOOLEAN]

InitStrain ==
    /\ args \in {a \in StrainInputs : Len(a.Au_C) = Len(a.Au_P)}
    /\ prim \in StrainPrimBehaviours(args)
    /\ frame = [p \in OneCall |-> NewStrainFrame]

StrainSpar(p) ==
    /\ frame[p].pc = "st_for"
    /\ frame[p].j < Len(args.psi_spars)
    /\ frame' = [frame EXCEPT ![p] = StrainSparFrame(frame[p])]
    /\ UNCHANGED <<args, prim>>

StrainInitial(p) ==
    /\ frame[p].pc = "st_for"
    /\ frame[p].j >= Len(args.psi_spars)
    /\ frame' = [frame EXCEPT ![p] = StrainInitialFrame(frame[p])]
    /\ args' = [args EXCEPT !.psi_spars = Prepend(Zero, args.psi_spars).operand]
    /\ UNCHANGED prim

StrainFinal(p) ==
    /\ frame[p].pc = "st_final"
    /\ frame' = [frame EXCEPT ![p] = StrainFinalFrame(frame[p])]
    /\ UNCHANGED <<args, prim>>

StrainReturn(p) ==
    /\ frame[p].pc = "st_strains"
    /\ frame' = [frame EXCEPT ![p] = StrainReturnFrame(frame[p])]
    /\ UNCHANGED <<args, prim>>

StepStrain(p) ==
    \/ StrainSpar(p)
    \/ StrainInitial(p)
    \/ StrainFinal(p)
    \/ StrainReturn(p)

NextStrain == \E p \in OneCall : StepStrain(p)

SpecStrain == InitStrain /\ [][NextStrain]_vars

----------------------------------------------------------------------------
(* Calls of calculate_shape_coefficients_tracing.                          *)

\* Coordinates along the chord: the leading edge, inside, the tip.
TracingAbscissas == {Q(0, 1), Q(1, 4), Q(1, 2), Q(1, 1)}

TracingOrdinates == {Q(0, 1), Q(1, 8)}

TracingInputs ==
    { [A0 |-> a0, x |-> xs, y |-> ys, N1 |-> n1, N2 |-> One, chord |-> sc[1],
       EndThickness |-> sc[2]] :
        a0 \in {Q(-2, 1), Q(1, 4)},
        xs \in UNION {[1..k -> TracingAbscissas] : k \in 1..MaxN},
        ys \in UNION {[1..k -> TracingOrdinates] : k \in 1..MaxN},
        n1 \in {Q(1, 2), One}, sc \in Scalars }

InitTracing ==
    /\ args \in {a \in TracingInputs : Len(a.x) = Len(a.y)}
    /\ prim \in [baseline : {<<>>}, direction : {<<Zero, One>>}, goal : {"same"},
                 numpy_scalars : {TRUE}]
    /\ frame = [p \in OneCall |-> NewTracingFrame]

TracingEnter(p) ==
    /\ frame[p].pc = "tr_entry"
    /\ frame' = [frame EXCEPT ![p] = TracingEnterFrame(frame[p])]
    /\ UNCHANGED <<args, prim>>

TracingRow(p) ==
    /\ frame[p].pc = "tr_for"
    /\ frame[p].j <= frame[p].n
    /\ frame' = [frame EXCEPT ![p] = TracingRowFrame(frame[p])]
    /\ UNCHANGED <<args, prim>>

TracingSolve(p) ==
    /\ frame[p].pc = "tr_for"
    /\ frame[p].j > frame[p].n
    /\ frame' = [frame EXCEPT ![p] = TracingSolveFrame(frame[p])]
    /\ UNCHANGED <<args, prim>>

NextTracing == \E p \in OneCall : TracingEnter(p) \/ TracingRow(p) \/ TracingSolve(p)

SpecTracing == InitTracing /\ [][NextTracing]_vars

----------------------------------------------------------------------------
(* Further runs of the solver.                                             *)

\* Calls of order 1 on the unit chord with one spar at a quarter of the chord.
LoopInputs ==
    { a \in SolverInputs :
        /\ Len(a.Au_C_1_to_n) = 1 /\ Len(a.Au_P) = 2
        /\ a.psi_spars = <<Q(1, 4)>> /\ a.c_P = One }

InitFair ==
    /\ args \in LoopInputs
    /\ prim \in PrimBehaviours(args)
    /\ frame = [p \in OneCall |-> NewFrame]

\* One such call run to its end: a call that can take a step takes one.
SpecFair == InitFair /\ [][Next]_vars /\ WF_vars(Next)

\* Two calls in flight on the same argument objects: two calls of the solver,
\* or two calls of calculate_strains for one spar on a parent of order 1.
InitPair ==
    \/ /\ args \in LoopInputs
       /\ prim \in PrimBehaviours(args)
       /\ frame = [p \in TwoCalls |-> NewFrame]
    \/ /\ args \in {a \in StrainInputs : Len(a.Au_C) = 2 /\ Len(a.Au_P) = 2
                                          /\ Len(a.psi_spars) = 1}
       /\ prim \in StrainPrimBehaviours(args)
       /\ frame = [p \in TwoCalls |-> NewStrainFrame]

NextPair == \E p \in TwoCalls : Step(p) \/ StepStrain(p)

SpecPair == InitPair /\ [][NextPair]_vars

\* A backwards solve followed by a forwards solve from its child towards the
\* free coefficients of the first parent, on the same stations.  args.leg is
\* the solve in progress and args.origin the first parent.
DualInputs ==
    { [Au_C_1_to_n |-> a.Au_C_1_to_n, psi_spars |-> a.psi_spars, Au_P |-> a.Au_P,
       Al_P |-> a.Al_P, deltaz |-> a.deltaz, c_P |-> a.c_P, morphing |-> a.morphing,
       leg |-> 1, origin |-> [Au_P |-> a.Au_P, Al_P |-> a.Al_P, c_P |-> a.c_P]] :
        a \in { b \in SolverInputs :
                  /\ b.morphing = "backwards"
                  /\ Len(b.Au_C_1_to_n) = Len(b.psi_spars)
                  /\ Len(b.Au_P) = Len(b.psi_spars) + 1
                  /\ \A j \in 1..Len(b.psi_spars) : b.psi_spars[j] \in {Q(1, 4), Q(3, 4)}
                  /\ \A j \in 1..(Len(b.psi_spars) - 1) :
                         RLt(b.psi_spars[j], b.psi_spars[j + 1]) } }

\* The primitives at their most favourable: spars stay vertical and stations
\* unmoved in both solves.
InitDual ==
    /\ args \in DualInputs
    /\ prim \in { b \in PrimBehaviours(args) : b.direction = <<Zero, One>> }
    /\ frame = [p \in OneCall |-> NewFrame]

\* The second solve: the child of the first is the parent, the free
\* coefficients are those of the first parent.
DualArgs(r) ==
    [Au_C_1_to_n |-> Tail(args.origin.Au_P), psi_spars |-> args.psi_spars,
     Au_P |-> r.Au_C, Al_P |-> r.Al_C, deltaz |-> args.deltaz, c_P |-> r.c_C,
     morphing |-> "forwards", leg |-> 2, origin |-> args.origin]

\* The baseline chord of the second solve is the chord of the first parent,
\* whatever the leading coefficient: the inverse of the first solve's chord.
DualPrim(r) ==
    [prim EXCEPT !.baseline =
        [v \in {r.Au_C[1], args.origin.Au_P[1]} |-> RDiv(args.origin.c_P, r.c_C)]]

SolveBack(p) ==
    /\ frame[p].pc = "returned"
    /\ args.leg = 1
    /\ args' = DualArgs(frame[p].ret)
    /\ prim' = DualPrim(frame[p].ret)
    /\ frame' = [frame EXCEPT ![p] = NewFrame]

NextDual == \E p \in OneCall : Step(p) \/ SolveBack(p)

SpecDual == InitDual /\ [][NextDual]_vars

----------------------------------------------------------------------------
(* Properties of calculate_dependent_shape_coefficients.                   *)

Calls == DOMAIN frame

Finished(p) == frame[p].pc \in {"returned", "raised"}

\* len(free) = len(stations) = n and both parents of length n + 1.
DimensionsMatch(a) ==
    /\ Len(a.Au_C_1_to_n) = Len(a.psi_spars)
    /\ Len(a.Au_P) = Len(a.Au_C_1_to_n) + 1
    /\ Len(a.Al_P) = Len(a.Au_C_1_to_n) + 1

InDomain(psi) == RLt(Zero, psi) /\ RLt(psi, One)

StationsInDomain(a) == \A j \in 1..Len(a.psi_spars) : InDomain(a.psi_spars[j])

StationsIncreasing(a) ==
    \A j \in 1..(Len(a.psi_spars) - 1) : RLt(a.psi_spars[j], a.psi_spars[j + 1])

\* C1: every call finishes; the fixed-point loop reaches the tolerance or is
\* stopped after a bounded number of passes and the call ends by reporting
\* NonConvergence.
C1_EveryCallFinishes == <>(frame[1].pc \in {"returned", "raised"})

\* C2: a call whose lengths do not match is rejected with DimensionMismatch
\* before anything is computed (no pass of the loop, no thickness measured, no
\* matrix built) and never returns a result.
C2_MismatchRejectedFirst ==
    \A p \in Calls :
        ~DimensionsMatch(args) =>
            /\ frame[p].did = {}
            /\ frame[p].pc # "returned"
            /\ frame[p].pc = "raised" => frame[p].exc = "DimensionMismatch"

\* C3: stations that are not strictly increasing, or not all inside (0,1), are
\* rejected before any matrix is inverted, in both directions, and no
\* coefficients are returned for them.
C3_BadStationsRejected ==
    \A p \in Calls :
        (args.morphing \in {"backwards", "forwards"}
         /\ ~(StationsInDomain(args) /\ StationsIncreasing(args))) =>
            /\ "inv" \notin frame[p].did
            /\ frame[p].pc # "returned"

\* C5: for matching lengths and either direction the result has n + 1 upper
\* and n + 1 lower coefficients and n thicknesses, and the upper coefficients
\* after the first are the free coefficients in their order.
C5_ResultLengths ==
    \A p \in Calls :
        (DimensionsMatch(args) /\ frame[p].pc = "returned") =>
            LET r == frame[p].ret
                n == Len(args.Au_C_1_to_n)
            IN  /\ Len(r.Au_C) = n + 1
                /\ Len(r.Al_C) = n + 1
                /\ Len(r.spar_thicknesses) = n
                /\ \A i \in 1..n : r.Au_C[i + 1] = args.Au_C_1_to_n[i]

C5_ForwardsReturned ==
    \E p \in Calls :
        /\ DimensionsMatch(args) /\ frame[p].pc = "returned"
        /\ args.morphing = "forwards" /\ Len(args.Au_C_1_to_n) = 2

\* The thickness of the parent at a station, measured on the parent alone:
\* the chord times the height of the upper over the lower surface.
MeasuredThickness(psi) ==
    LET xi == CST(psi, RDiv(RDiv(args.deltaz, Q(2, 1)), args.c_P), args.Al_P, args.Au_P)
    IN  RMul(args.c_P, RSub(xi.u, xi.l))

RoundTrip(a) ==
    /\ a.morphing = "backwards"
    /\ a.Au_P # <<>> /\ a.Au_C_1_to_n = Tail(a.Au_P)
    /\ StationsInDomain(a)

\* C6: in backwards mode with the free coefficients equal to the parent's own
\* (and stations inside (0,1)) the loop stops at AC_u0 = Au_P[0] and the result
\* is the parent: its chord, its lower coefficients, its measured thicknesses.
C6_RoundTrip ==
    \A p \in Calls :
        (RoundTrip(args) /\ frame[p].pc = "returned") =>
            LET r == frame[p].ret
            IN  /\ frame[p].AC_u0 = args.Au_P[1]
                /\ r.c_C = args.c_P
                /\ r.Al_C = args.Al_P
                /\ r.spar_thicknesses =
                       [j \in 1..Len(args.psi_spars) |-> MeasuredThickness(args.psi_spars[j])]

C6_RoundTripReturned ==
    \E p \in Calls :
        /\ RoundTrip(args) /\ frame[p].pc = "returned"
        /\ Len(args.psi_spars) = 2 /\ args.c_P # One /\ args.deltaz # Zero

\* The value of the spar-distance primitive for spar j of a finished call.
PrimitiveDistance(p, j) ==
    calculate_spar_distance(args.psi_spars[j], frame[p].ret.Au_C, args.Au_P,
                            args.Al_P, args.deltaz, args.c_P)

\* C10 as stated: in both directions every returned thickness is the value of
\* the spar-distance primitive, not the vertical difference of the surfaces.
C10_ThicknessIsSparDistance ==
    \A p \in Calls :
        frame[p].pc = "returned" =>
            \A j \in 1..Len(frame[p].ret.spar_thicknesses) :
                frame[p].ret.spar_thicknesses[j] = PrimitiveDistance(p, j)

\* C10 amended: a backwards call returns the values of the spar-distance
\* primitive; a forwards call returns the parent chord times the vertical
\* difference of the parent's surfaces at the station.
C10_ThicknessByDirection ==
    \A p \in Calls :
        frame[p].pc = "returned" =>
            \A j \in 1..Len(frame[p].ret.spar_thicknesses) :
                frame[p].ret.spar_thicknesses[j] =
                    IF args.morphing = "backwards" THEN PrimitiveDistance(p, j)
                    ELSE MeasuredThickness(args.psi_spars[j])

C10_ForwardsSlantedReturned ==
    \E p \in Calls :
        /\ frame[p].pc = "returned" /\ args.morphing = "forwards"
        /\ frame[p].ret.Au_C # args.Au_P
        /\ prim.direction # <<Zero, One>>
        /\ frame[p].ret.spar_thicknesses[1] # PrimitiveDistance(p, 1)
        /\ IsFinite(frame[p].ret.spar_thicknesses[1])

----------------------------------------------------------------------------
(* Properties of the tracing fit, of calculate_strains, of pairs of calls.  *)

AllFinite(seq) == \A i \in 1..Len(seq) : IsFinite(seq[i])

\* Points of the tracing fit that repeat, or lie on the leading edge or the tip.
DegeneratePoints ==
    \/ \E i \in 1..Len(args.x) : RDiv(args.x[i], args.chord) \in {Zero, One}
    \/ \E i, k \in 1..Len(args.x) : i # k /\ args.x[i] = args.x[k]

\* C4: a singular system (two equal stations, a station at 0 or at 1) is
\* reported to the caller as a failure; no coefficient set with a NaN or an
\* infinite entry is ever returned.
C4_DegenerateReported ==
    \A p \in Calls :
        frame[p].pc = "returned" => (~DegeneratePoints /\ AllFinite(frame[p].A))

IdenticalConfigurations ==
    /\ args.Au_C = args.Au_P /\ args.Al_C = args.Al_P /\ args.c_C = args.c_P

\* C7: for identical parent and child, stations increasing inside (0,1) and
\* any chord c_P > 0, every strain and the average strain are 0.
C7_IdenticalNoStrain ==
    \A p \in Calls :
        (/\ IdenticalConfigurations
         /\ StationsInDomain(args) /\ StationsIncreasing(args)
         /\ frame[p].pc = "returned") =>
            /\ \A i \in 1..Len(frame[p].strains) : frame[p].strains[i] = Zero
            /\ frame[p].av_strain = Zero

\* C8: for n stations there are n + 1 strains, each (final - initial)/initial
\* over its segment, and the average strain is the sum of the final lengths
\* less the sum of the initial ones, over the sum of the initial ones.
C8_StrainFormulas ==
    \A p \in Calls :
        frame[p].pc = "returned" =>
            LET fr == frame[p]
                n == Len(args.psi_spars)
            IN  /\ Len(fr.strains) = n + 1
                /\ Len(fr.initial_lengths) = n + 1 /\ Len(fr.final_lengths) = n + 1
                /\ \A i \in 1..(n + 1) :
                       fr.strains[i] = RDiv(RSub(fr.final_lengths[i], fr.initial_lengths[i]),
                                            fr.initial_lengths[i])
                /\ fr.av_strain = RDiv(RSub(RSum(fr.final_lengths), RSum(fr.initial_lengths)),
                                       RSum(fr.initial_lengths))

\* A result whose average strain is not the mean of its strains.
C8_AverageIsNotMean ==
    \E p \in Calls :
        /\ frame[p].pc = "returned" /\ Len(args.psi_spars) = 2
        /\ AllFinite(frame[p].strains) /\ IsFinite(frame[p].av_strain)
        /\ frame[p].av_strain # RDiv(RSum(frame[p].strains), Q(Len(frame[p].strains), 1))

SameOutcome(p, q) ==
    /\ frame[p].pc = frame[q].pc /\ frame[p].exc = frame[q].exc
    /\ frame[p].ret = frame[q].ret
    /\ frame[p].strains = frame[q].strains /\ frame[p].av_strain = frame[q].av_strain

\* C9: no step of a call changes a sequence of the caller, and two calls on
\* equal arguments end with equal results however their steps interleave.
C9_CallsIndependent ==
    /\ [][args' = args]_vars
    /\ [](\A p, q \in TwoCalls : (Finished(p) /\ Finished(q)) => SameOutcome(p, q))

C9_BothReturned ==
    /\ \A p \in TwoCalls : frame[p].pc = "returned"
    /\ \/ "iterate" \in frame[1].did /\ frame[1].ret.Au_C # args.Au_P
       \/ frame[1].strains # <<>>

\* C11: a backwards solve followed by a forwards solve from its child towards
\* the first parent's free coefficients returns the first parent's chord and
\* lower coefficients.
C11_DualityRecovers ==
    \A p \in OneCall :
        (args.leg = 2 /\ frame[p].pc = "returned") =>
            /\ frame[p].ret.c_C = args.origin.c_P
            /\ frame[p].ret.Al_C = args.origin.Al_P

\* The Bernstein system of the target points: row j holds
\* K(i,n) Psi_j^i (1-Psi_j)^(n-i) for i = 1..n.
TargetSystem ==
    LET n == Len(args.x)
        Psi == [j \in 1..n |-> RDiv(args.x[j], args.chord)]
    IN  [j \in 1..n |-> [i \in 1..n |->
            RMul(K(i, n), RMul(RPow(Psi[j], i), RPow(RSub(One, Psi[j]), n - i)))]]

\* C12: the tracing fit with n target points returns n+1 coefficients, the
\* first is A0 unchanged, and the other n solve the square Bernstein system
\* that has one row per target point (its right-hand side being finite).
C12_TracingResult ==
    \A p \in OneCall :
        frame[p].pc = "returned" =>
            /\ Len(frame[p].A) = Len(args.x) + 1
            /\ frame[p].A[1] = args.A0
            /\ frame[p].T = TargetSystem
            /\ Len(frame[p].t) = Len(args.x)
            /\ AllFinite(frame[p].t) =>
                   MatVec(TargetSystem, Tail(frame[p].A)) = frame[p].t

C12_TwoPointsFitted ==
    \E p \in OneCall :
        /\ frame[p].pc = "returned" /\ Len(args.x) = 2 /\ Len(frame[p].A) = 3
        /\ AllFinite(frame[p].A) /\ frame[p].A[2] # Zero /\ frame[p].A[3] # Zero
        /\ frame[p].A[1] = args.A0

----------------------------------------------------------------------------
(* xfoil_module: the names of the files XFOIL writes.                      *)

DigitStr == <<"0", "1", "2", "3", "4", "5", "6", "7", "8", "9">>

\* The decimal digits of a natural number.
RECURSIVE IntStr(_)
IntStr(k) == IF k < 10 THEN DigitStr[k + 1] ELSE IntStr(k \div 10) \o DigitStr[(k % 10) + 1]

\* |x| in units of 1/10^k, rounded half to even as the float formatting does
\* (the angles used are exact binary fractions).
RoundedUnits(x, units) ==
    LET a == Abs(x.n) * units
        q == a \div x.d
        r == a % x.d
    IN  IF 2 * r > x.d \/ (2 * r = x.d /\ q % 2 = 1) THEN q + 1 ELSE q

\* '%.2f' % alfa, already split at the point: the text before it, the number
\* that text denotes, the two digits after it.
Format2f(alfa) ==
    LET h == RoundedUnits(alfa, 100)
    IN  [inter |-> (IF alfa.n < 0 THEN "-" ELSE "") \o IntStr(h \div 100),
         inter_number |-> (IF alfa.n < 0 THEN 0 - (h \div 100) ELSE h \div 100),
         dec |-> DigitStr[((h % 100) \div 10) + 1] \o DigitStr[(h % 10) + 1]]

\* '%.2d' % k: the sign, then at least two digits.
Format2d(k) ==
    (IF k < 0 THEN "-" ELSE "") \o (IF Abs(k) < 10 THEN "0" ELSE "") \o IntStr(Abs(k))

\* Lines 888-902.
alfa_for_file(alfa) ==
    LET s == Format2f(alfa)
        inter == Format2d(s.inter_number)
    IN  (IF s.inter_number < 0 THEN "n" ELSE "") \o inter \o s.dec

\* '%s' % x for a float x whose fraction is a multiple of 1/8: the shortest
\* decimal text, with at least one digit after the point.
FloatStr(x) ==
    LET t == RoundedUnits(x, 1000)
        f == t % 1000
        frac == IF f % 100 = 0 THEN DigitStr[(f \div 100) + 1]
                ELSE IF f % 10 = 0
                     THEN DigitStr[(f \div 100) + 1] \o DigitStr[((f \div 10) % 10) + 1]
                     ELSE DigitStr[(f \div 100) + 1] \o DigitStr[((f \div 10) % 10) + 1]
                          \o DigitStr[(f % 10) + 1]
    IN  (IF x.n < 0 THEN "-" ELSE "") \o IntStr(t \div 1000) \o "." \o frac

\* The argument alfas: the default 'none', one float, or a list of floats.
NoAlfas == [kind |-> "none", v |-> <<>>]
OneAlfa(x) == [kind |-> "float", v |-> <<x>>]
AlfaList(xs) == [kind |-> "list", v |-> xs]

\* Lines 944-969: the name, or the failure of the final 'return filename'
\* when no branch has bound it.
file_name(airfoil, alfas, output) ==
    IF alfas.kind = "none"
    THEN [exc |-> "none", filename |-> output \o "_" \o airfoil]
    ELSE IF output \in {"Cp", "Dump"}
    THEN [exc |-> "none",
          filename |-> output \o "_" \o airfoil \o "_" \o alfa_for_file(alfas.v[1])]
    ELSE IF output = "Polar"
    THEN LET alfa_i == IF alfas.kind = "float" THEN alfa_for_file(alfas.v[1])
                       ELSE FloatStr(alfas.v[1])
             alfa_f == IF alfas.kind = "float" THEN alfa_for_file(alfas.v[Len(alfas.v)])
                       ELSE FloatStr(alfas.v[Len(alfas.v)])
         IN  [exc |-> "none",
              filename |-> output \o "_" \o airfoil \o "_" \o alfa_i \o "_" \o alfa_f]
    ELSE [exc |-> "UnboundLocalError", filename |-> ""]

\* Nothing outside the module: no file in outdir, no XFOIL subprocess.
NoEnvironment == [files |-> <<>>, started |-> 0, running |-> FALSE, pacc |-> ""]

\* The locals of a call of file_name that has not started.
NewNameFrame == [pc |-> "fn_entry", exc |-> "none", ret |-> ""]

FileNameFrame(f) ==
    LET r == file_name(args.airfoil, args.alfas, args.output)
    IN  IF r.exc # "none" THEN Raise(f, r.exc)
        ELSE [f EXCEPT !.ret = r.filename, !.pc = "returned"]

(* Calls of file_name.                                                     *)

Airfoils == {"naca2244", "naca0012"}

Outputs == {"Cp", "Dump", "Polar", "Alfa_L_0"}

\* Angles of attack: 2, -2, -0.5, 0, 0.125, 10.5.
Angles == {Q(2, 1), Q(-2, 1), Q(-1, 2), Q(0, 1), Q(1, 8), Q(21, 2)}

AlfaArguments ==
    {NoAlfas} \cup {OneAlfa(x) : x \in Angles}
        \cup {AlfaList(xs) : xs \in UNION {[1..k -> Angles] : k \in 1..MaxN}}

NameInputs == [airfoil : Airfoils, alfas : AlfaArguments, output : Outputs]

InitNames ==
    /\ args \in NameInputs
    /\ prim = NoEnvironment
    /\ frame = [p \in OneCall |-> NewNameFrame]

FileName(p) ==
    /\ frame[p].pc = "fn_entry"
    /\ frame' = [frame EXCEPT ![p] = FileNameFrame(frame[p])]
    /\ UNCHANGED <<args, prim>>

NextNames == \E p \in OneCall : FileName(p)

SpecNames == InitNames /\ [][NextNames]_vars

(* Properties of file_name.                                                *)

\* The encoding of an angle: 'n' when negative, two digits of the integer
\* part, two digits of the decimal part.
StandardAngle(x) ==
    LET h == RoundedUnits(x, 100)
    IN  (IF x.n < 0 THEN "n" ELSE "") \o Format2d(h \div 100)
            \o DigitStr[((h % 100) \div 10) + 1] \o DigitStr[(h % 10) + 1]

\* C13: file_name returns '<output>_<airfoil>' without angles,
\* '<output>_<airfoil>_<alfa>' for Cp and Dump and
\* 'Polar_<airfoil>_<alfa_i>_<alfa_f>' for Polar, each angle encoded as two
\* integer digits and two decimal digits with the prefix 'n' when negative.
C13_StandardNames ==
    \A p \in OneCall :
        frame[p].pc = "returned" =>
            LET a == args.alfas
                base == args.output \o "_" \o args.airfoil
            IN  frame[p].ret =
                    IF a.kind = "none" THEN base
                    ELSE IF args.output = "Polar"
                    THEN base \o "_" \o StandardAngle(a.v[1])
                              \o "_" \o StandardAngle(a.v[Len(a.v)])
                    ELSE base \o "_" \o StandardAngle(a.v[1])

----------------------------------------------------------------------------
(* xfoil_module: call and the find_ functions.  The variable prim holds    *)
(* what lies outside the module: the files of outdir and the XFOIL         *)
(* subprocess.  XFOIL executes the commands in the order they are written  *)
(* to its pipe: PACC opens the polar file, every operating point is added  *)
(* to the open polar file, CPWR, DUMP and SAVE write the file they name.   *)

\* One record in a file: the kind of result and its operating point.
Row(output, point) == [output |-> output, point |-> point]

\* A file left in outdir by an earlier run.
OldRows == <<Row("old", <<>>)>>

isfile(env, name) == name \in DOMAIN env.files

\* os.remove inside try/except OSError: the file is gone afterwards.
RemoveFile(env, name) ==
    [env EXCEPT !.files = [m \in DOMAIN env.files \ {name} |-> env.files[m]]]

\* XFOIL writes the file name, replacing what it held.
WriteFile(env, name, rows) ==
    [env EXCEPT !.files = [m \in DOMAIN env.files \cup {name} |->
                              IF m = name THEN rows ELSE env.files[m]]]

\* XFOIL adds an operating point to the open polar file, if there is one.
Accumulate(env, row) ==
    IF env.pacc = "" THEN env
    ELSE WriteFile(env, env.pacc, env.files[env.pacc] \o <<row>>)

\* The locals of call; a find_ function starts at pc "find_entry".
NewCallFrame(pc) ==
    [pc |-> pc, exc |-> "none", ret |-> <<>>, Multiple |-> "unbound", i |-> 0,
     filename |-> ""]

\* Lines 225-244: Multiple, and the checks of output against alfas.
CallCheckFrame(f) ==
    IF args.alfas.kind # "none"
    THEN [f EXCEPT !.Multiple = IF args.alfas.kind = "list" THEN "True" ELSE "False",
                   !.pc = "call_start"]
    ELSE IF args.output \in {"Alfa_L_0", "Coordinates"}
    THEN [f EXCEPT !.Multiple = "False", !.pc = "call_start"]
    ELSE Raise(f, "Exception")

\* Line 273: Popen starts XFOIL.
Popen(env) == [env EXCEPT !.started = @ + 1, !.running = TRUE, !.pacc = ""]

\* Lines 260-340: the subprocess, the geometry, and for Coordinates the SAVE
\* of the shape, otherwise OPER and for a polar the accumulation file.
CallStartFrame(f, env) ==
    LET e1 == Popen(env)
    IN  IF args.output = "Coordinates"
        THEN [frame |-> [f EXCEPT !.pc = "call_quit"],
              env |-> WriteFile(e1, "Coordinates_" \o args.airfoil,
                                <<Row("Coordinates", <<>>)>>)]
        ELSE IF args.output \in {"Polar", "Alfa_L_0"}
        THEN LET r == file_name(args.airfoil, args.alfas, args.output)
             IN  IF r.exc # "none"
                 THEN [frame |-> Raise(f, r.exc), env |-> e1]
                 ELSE [frame |-> [f EXCEPT !.pc = "call_submit", !.i = 1],
                       env |-> [WriteFile(RemoveFile(e1, r.filename), r.filename, <<>>)
                                    EXCEPT !.pacc = r.filename]]
        ELSE [frame |-> [f EXCEPT !.pc = "call_submit", !.i = 1], env |-> e1]

\* Lines 178-220: submit(output, alfa); alfa is <<>> when alfas is 'none'.
submit(alfa, env) ==
    IF args.output = "Alfa_L_0"
    THEN [exc |-> "none", env |-> Accumulate(env, Row("Alfa_L_0", <<>>))]
    ELSE LET e1 == Accumulate(env, Row("Polar", alfa))
         IN  IF args.output \in {"Cp", "Dump"}
             THEN LET r == file_name(args.airfoil, args.alfas, args.output)
                  IN  IF r.exc # "none" THEN [exc |-> r.exc, env |-> e1]
                      ELSE [exc |-> "none",
                            env |-> WriteFile(RemoveFile(e1, r.filename), r.filename,
                                              <<Row(args.output, alfa)>>)]
             ELSE [exc |-> "none", env |-> e1]

\* Lines 341-345: one angle of the loop, or the only submit of a single run.
CallSubmitFrame(f, env) ==
    LET alfa == IF f.Multiple = "True" THEN <<args.alfas.v[f.i]>> ELSE args.alfas.v
        last == f.Multiple # "True" \/ f.i >= Len(args.alfas.v)
        r == submit(alfa, env)
    IN  IF r.exc # "none" THEN [frame |-> Raise(f, r.exc), env |-> r.env]
        ELSE [frame |-> [f EXCEPT !.i = @ + 1,
                                  !.pc = IF last THEN "call_quit" ELSE "call_submit"],
              env |-> r.env]

\* Lines 346-350: QUIT, the pipe is closed, XFOIL has ended.
CallQuitFrame(f, env) ==
    [frame |-> [f EXCEPT !.pc = IF args.op = "call" THEN "returned" ELSE "find_read"],
     env |-> [env EXCEPT !.running = FALSE, !.pacc = ""]]

\* The output and the angles a find_ function works with.
FindOutput(op) ==
    IF op = "find_coefficients" THEN "Polar"
    ELSE IF op = "find_pressure_coefficients" THEN "Cp" ELSE "Alfa_L_0"

\* A find_ function that runs XFOIL whether or not the file is there.
FindAlwaysCalls(f, env) ==
    LET r == file_name(args.airfoil, args.alfas, args.output)
    IN  IF r.exc # "none" THEN Raise(f, r.exc)
        ELSE [f EXCEPT !.filename = r.filename, !.pc = "call_entry"]

\* Lines 984-986, 1016-1019, 1043-1045: the name of the file, and call only
\* when no such file is in outdir.
FindCheckFrame(f, env) ==
    LET r == file_name(args.airfoil, args.alfas, args.output)
    IN  IF r.exc # "none" THEN Raise(f, r.exc)
        ELSE [f EXCEPT !.filename = r.filename,
                       !.pc = IF isfile(env, r.filename) THEN "find_read"
                              ELSE "call_entry"]

\* Lines 992-1008, 1022-1031, 1048: the data read by output_reader, which
\* removes the file when delete is set; find_coefficients then removes it
\* once more.
FindReadFrame(f, env) ==
    IF ~isfile(env, f.filename)
    THEN [frame |-> Raise(f, "FileNotFoundError"), env |-> env]
    ELSE LET rows == env.files[f.filename]
             e1 == IF args.delete THEN RemoveFile(env, f.filename) ELSE env
         IN  IF args.op = "find_alpha_L_0" /\ rows = <<>>
             THEN [frame |-> Raise(f, "IndexError"), env |-> e1]
             ELSE IF args.op = "find_coefficients" /\ args.delete
             THEN [frame |-> Raise(f, "FileNotFoundError"), env |-> e1]
             ELSE [frame |-> [f EXCEPT !.ret = rows, !.pc = "returned"], env |-> e1]

(* Calls of call and of the find_ functions.                               *)

CallAngles == {Q(2, 1), Q(-2, 1)}

CallAlfas ==
    {OneAlfa(x) : x \in CallAngles}
        \cup {AlfaList(xs) : xs \in UNION {[1..k -> CallAngles] : k \in 1..MaxN}}

\* The names a run with these arguments may touch: that of the whole alfas
\* and that of each of its angles.
CandidateNames(airfoil, alfas, output) ==
    {file_name(airfoil, al, output).filename :
        al \in {alfas} \cup {OneAlfa(alfas.v[i]) : i \in 1..Len(alfas.v)}} \ {""}

CallInputs ==
    UNION {
        { [op |-> "call", airfoil |-> "naca2244", alfas |-> al, output |-> o,
           delete |-> FALSE, present |-> pr] :
            pr \in SUBSET CandidateNames("naca2244", al, o) } :
        al \in CallAlfas \cup {NoAlfas},
        o \in Outputs \cup {"Coordinates"} }

FindInputs ==
    UNION {
        { [op |-> op, airfoil |-> "naca2244", alfas |-> al, output |-> FindOutput(op),
           delete |-> d, present |-> pr] :
            pr \in SUBSET CandidateNames("naca2244", al, FindOutput(op)),
            d \in IF op = "find_alpha_L_0" THEN {FALSE} ELSE BOOLEAN } :
        op \in {"find_coefficients", "find_pressure_coefficients", "find_alpha_L_0"},
        al \in CallAlfas \cup {NoAlfas} }

InitCall ==
    /\ args \in CallInputs \cup
                {a \in FindInputs : (a.op = "find_alpha_L_0") <=> (a.alfas = NoAlfas)}
    /\ prim = [files |-> [m \in args.present |-> OldRows], started |-> 0,
               running |-> FALSE, pacc |-> ""]
    /\ frame = [p \in OneCall |->
                   NewCallFrame(IF args.op = "call" THEN "call_entry" ELSE "find_entry")]

FindCheck(p) ==
    /\ frame[p].pc = "find_entry"
    /\ frame' = [frame EXCEPT ![p] = FindCheckFrame(frame[p], prim)]
    /\ UNCHANGED <<args, prim>>

CallCheck(p) ==
    /\ frame[p].pc = "call_entry"
    /\ frame' = [frame EXCEPT ![p] = CallCheckFrame(frame[p])]
    /\ UNCHANGED <<args, prim>>

CallStart(p) ==
    /\ frame[p].pc = "call_start"
    /\ frame' = [frame EXCEPT ![p] = CallStartFrame(frame[p], prim).frame]
    /\ prim' = CallStartFrame(frame[p], prim).env
    /\ UNCHANGED args

CallSubmit(p) ==
    /\ frame[p].pc = "call_submit"
    /\ frame' = [frame EXCEPT ![p] = CallSubmitFrame(frame[p], prim).frame]
    /\ prim' = CallSubmitFrame(frame[p], prim).env
    /\ UNCHANGED args

CallQuit(p) ==
    /\ frame[p].pc = "call_quit"
    /\ frame' = [frame EXCEPT ![p] = CallQuitFrame(frame[p], prim).frame]
    /\ prim' = CallQuitFrame(frame[p], prim).env
    /\ UNCHANGED args

FindRead(p) ==
    /\ frame[p].pc = "find_read"
    /\ frame' = [frame EXCEPT ![p] = FindReadFrame(frame[p], prim).frame]
    /\ prim' = FindReadFrame(frame[p], prim).env
    /\ UNCHANGED args

NextCall ==
    \E p \in OneCall :
        \/ FindCheck(p) \/ CallCheck(p) \/ CallStart(p) \/ CallSubmit(p)
        \/ CallQuit(p) \/ FindRead(p)

SpecCall == InitCall /\ [][NextCall]_vars

(* Properties of call and of the find_ functions.                          *)

\* The name of the file of one angle.
NameOfAngle(x) == file_name(args.airfoil, OneAlfa(x), args.output).filename

\* C14: after call with output Cp or Dump and a list of angles, every angle
\* has its own file, named for that angle and holding that angle's result.
C14_OneFilePerAngle ==
    \A p \in OneCall :
        (/\ args.op = "call" /\ args.output \in {"Cp", "Dump"}
         /\ args.alfas.kind = "list" /\ frame[p].pc = "returned") =>
            \A i \in 1..Len(args.alfas.v) :
                /\ isfile(prim, NameOfAngle(args.alfas.v[i]))
                /\ prim.files[NameOfAngle(args.alfas.v[i])]
                       = <<Row(args.output, <<args.alfas.v[i]>>)>>

\* The arguments call is to reject.
RejectedArguments ==
    \/ args.output = "Alfa_L_0" /\ args.alfas # NoAlfas
    \/ args.output # "Alfa_L_0" /\ args.alfas = NoAlfas

\* C15: call with output Alfa_L_0 and alfas given, or with another output
\* and no alfas, raises its exception, and XFOIL is never started.
C15_RejectedBeforeXfoil ==
    \A p \in OneCall :
        (args.op = "call" /\ RejectedArguments) =>
            /\ prim.started = 0
            /\ frame[p].pc \in {"call_entry", "raised"}
            /\ frame[p].pc = "raised" => frame[p].exc = "Exception"

\* C16: a find_ function runs XFOIL exactly when the file it expects was
\* not in outdir; when the file was there it is read and XFOIL is not run.
C16_XfoilOnlyWhenMissing ==
    \A p \in OneCall :
        args.op # "call" =>
            /\ prim.started <= 1
            /\ prim.started = 1 => frame[p].filename \notin args.present
            /\ (frame[p].pc \in {"find_read", "returned"}
                    /\ frame[p].filename \notin args.present) =>
                   prim.started = 1
            /\ (frame[p].pc = "returned" /\ frame[p].filename \in args.present) =>
                   frame[p].ret = OldRows

C16_ExistingFileRead ==
    \E p \in OneCall :
        /\ args.op = "find_coefficients" /\ frame[p].pc = "returned"
        /\ frame[p].filename \in args.present /\ prim.started = 0
        /\ frame[p].ret = OldRows

----------------------------------------------------------------------------
(* xfoil_module: prepare_xfoil without repositioning.                      *)

\* sorted(points, key=lambda coord: coord[0], reverse=...): a stable sort;
\* points of equal x keep the order they had, in either direction.
RECURSIVE InsertByX(_, _, _)
InsertByX(sorted, pt, reverse) ==
    IF sorted = <<>> THEN <<pt>>
    ELSE LET last == sorted[Len(sorted)]
             stays == IF reverse THEN ~RLt(last[1], pt[1]) ELSE ~RLt(pt[1], last[1])
         IN  IF stays THEN Append(sorted, pt)
             ELSE Append(InsertByX(SubSeq(sorted, 1, Len(sorted) - 1), pt, reverse), last)

RECURSIVE SortedByX(_, _)
SortedByX(points, reverse) ==
    IF points = <<>> THEN <<>>
    ELSE InsertByX(SortedByX(SubSeq(points, 1, Len(points) - 1), reverse),
                   points[Len(points)], reverse)

\* The locals of a call of prepare_xfoil that has not started.
NewPrepareFrame == [pc |-> "px_entry", exc |-> "none", upper |-> <<>>, lower |-> <<>>,
                    ret |-> <<>>]

\* Lines 539-552: the points of both surfaces divided by the chord.
PrepareScaleFrame(f) ==
    [f EXCEPT !.upper = [i \in 1..Len(args.Coordinates_Upper) |->
                            <<RDiv(args.Coordinates_Upper[i][1], args.chord),
                              RDiv(args.Coordinates_Upper[i][2], args.chord)>>],
              !.lower = [i \in 1..Len(args.Coordinates_Lower) |->
                            <<RDiv(args.Coordinates_Lower[i][1], args.chord),
                              RDiv(args.Coordinates_Lower[i][2], args.chord)>>],
              !.pc = "px_sort"]

\* The join that keeps the first point of the sorted lower surface.
PrepareSortKeepAll(f) ==
    IF args.FSI
    THEN [f EXCEPT !.ret = <<SortedByX(f.upper, FALSE), SortedByX(f.lower, FALSE)>>,
                   !.pc = "returned"]
    ELSE [f EXCEPT !.ret = SortedByX(f.upper, TRUE) \o SortedByX(f.lower, FALSE),
                   !.pc = "returned"]

\* Lines 570-585: with FSI both surfaces in increasing x, as a pair; otherwise
\* the upper surface in decreasing x followed by the lower surface in
\* increasing x without its first point.
PrepareSortFrame(f) ==
    IF args.FSI
    THEN [f EXCEPT !.ret = <<SortedByX(f.upper, FALSE), SortedByX(f.lower, FALSE)>>,
                   !.pc = "returned"]
    ELSE [f EXCEPT !.ret = SortedByX(f.upper, TRUE) \o Tail(SortedByX(f.lower, FALSE)),
                   !.pc = "returned"]

(* Calls of prepare_xfoil.                                                 *)

\* Points of a surface; two of them share their x.
SurfacePoints == {<<Q(0, 1), Q(0, 1)>>, <<Q(2, 1), Q(1, 1)>>, <<Q(2, 1), Q(3, 1)>>,
                  <<Q(4, 1), Q(1, 1)>>}

Surfaces == UNION {[1..k -> SurfacePoints] : k \in 1..MaxN}

PrepareInputs ==
    [Coordinates_Upper : Surfaces, Coordinates_Lower : Surfaces,
     chord : {Q(1, 1), Q(4, 1)}, reposition : {FALSE}, FSI : BOOLEAN]

InitPrepare ==
    /\ args \in PrepareInputs
    /\ prim = NoEnvironment
    /\ frame = [p \in OneCall |-> NewPrepareFrame]

PrepareScale(p) ==
    /\ frame[p].pc = "px_entry"
    /\ frame' = [frame EXCEPT ![p] = PrepareScaleFrame(frame[p])]
    /\ UNCHANGED <<args, prim>>

PrepareSort(p) ==
    /\ frame[p].pc = "px_sort"
    /\ frame' = [frame EXCEPT ![p] = PrepareSortFrame(frame[p])]
    /\ UNCHANGED <<args, prim>>

NextPrepare == \E p \in OneCall : PrepareScale(p) \/ PrepareSort(p)

SpecPrepare == InitPrepare /\ [][NextPrepare]_vars

(* Properties of prepare_xfoil.                                            *)

\* A point of the inputs over the chord.
OverChord(pt) == <<RDiv(pt[1], args.chord), RDiv(pt[2], args.chord)>>

\* How often a point occurs in a sequence.
Occurrences(seq, pt) == Cardinality({i \in 1..Len(seq) : seq[i] = pt})

ScaledPoints == {OverChord(pt) : pt \in SurfacePoints}

\* C17: without reposition and FSI the result is one sequence of
\* len(upper) + len(lower) - 1 points: the upper points over the chord in
\* non-increasing x, then the lower points over the chord in non-decreasing
\* x, a lower point of smallest x left out.
C17_XfoilOrder ==
    \A p \in OneCall :
        (~args.reposition /\ ~args.FSI /\ frame[p].pc = "returned") =>
            LET U == args.Coordinates_Upper
                L == args.Coordinates_Lower
                r == frame[p].ret
                up == SubSeq(r, 1, Len(U))
                low == SubSeq(r, Len(U) + 1, Len(r))
            IN  /\ Len(r) = Len(U) + Len(L) - 1
                /\ \A i \in 1..(Len(up) - 1) : ~RLt(up[i][1], up[i + 1][1])
                /\ \A i \in 1..(Len(low) - 1) : ~RLt(low[i + 1][1], low[i][1])
                /\ \A q \in ScaledPoints :
                       Occurrences(up, q) = Occurrences([i \in 1..Len(U) |-> OverChord(U[i])], q)
                /\ \E k \in 1..Len(L) :
                       /\ \A i \in 1..Len(L) : ~RLt(L[i][1], L[k][1])
                       /\ \A q \in ScaledPoints :
                              Occurrences(low, q) + (IF q = OverChord(L[k]) THEN 1 ELSE 0)
                                  = Occurrences([i \in 1..Len(L) |-> OverChord(L[i])], q)
                /\ \A i \in 1..Len(U) : ~RLt(r[1][1], OverChord(U[i])[1])

C17_BothSurfacesJoined ==
    \E p \in OneCall :
        /\ ~args.reposition /\ ~args.FSI /\ frame[p].pc = "returned"
        /\ args.chord = Q(4, 1)
        /\ Len(args.Coordinates_Upper) = 2 /\ Len(args.Coordinates_Lower) = 2
        /\ RLt(args.Coordinates_Upper[1][1], args.Coordinates_Upper[2][1])
        /\ RLt(args.Coordinates_Lower[2][1], args.Coordinates_Lower[1][1])
        /\ Len(frame[p].ret) = 3

----------------------------------------------------------------------------
(* xfoil_module: NonBlockingStreamReader.  prim is the stdout pipe of the  *)
(* subprocess; the frame holds the object (_q, the thread _t) and the      *)
(* caller of readline, with the history of what was read and returned.     *)

\* timeout=None, or a number of clock ticks.
NoTimeout == [none |-> TRUE, secs |-> 0]
Seconds(k) == [none |-> FALSE, secs |-> k]

\* A get that blocks whatever the timeout is.
BlockAlways(timeout) == TRUE

\* Line 57: block=timeout is not None.
Block(timeout) == ~timeout.none

\* Lines 32-52: the object after __init__, its thread about to read.
NewReaderFrame ==
    [pc |-> "idle", exc |-> "none", q |-> <<>>, t_pc |-> "readline", line |-> "",
     eofs |-> 0, timeout |-> NoTimeout, waited |-> 0, calls |-> 0,
     read |-> <<>>, got |-> <<>>]

\* What one readline call gave back: None or a line, and the number of lines
\* queued when it returned.
Returned(f, is_none, line) == [none |-> is_none, line |-> line, queued |-> Len(f.q)]

\* Line 43: stream.readline() gives the next line of the pipe, or '' once
\* the pipe is closed and empty.
PopulateReadFrame(f, pipe) ==
    LET line == IF pipe.data # <<>> THEN Head(pipe.data) ELSE ""
    IN  [f EXCEPT !.line = line, !.t_pc = "put", !.read = Append(@, line),
                  !.eofs = IF pipe.data = <<>> THEN @ + 1 ELSE @]

\* Line 45: queue.put(line), and the loop goes round.
PopulatePutFrame(f) == [f EXCEPT !.q = Append(@, f.line), !.t_pc = "readline"]

\* Queue.get taking the oldest item.
GetFrame(f) ==
    [f EXCEPT !.got = Append(@, Returned(f, FALSE, Head(f.q))), !.q = Tail(@),
              !.pc = "idle"]

\* Lines 58-59: Empty becomes None.
EmptyFrame(f) == [f EXCEPT !.got = Append(@, Returned(f, TRUE, "")), !.pc = "idle"]

\* Lines 54-59: readline(timeout) up to the point where get returns, raises
\* Empty or starts to wait.
ReadlineFrame(f, timeout) ==
    LET g == [f EXCEPT !.calls = @ + 1, !.timeout = timeout, !.waited = 0]
    IN  IF g.q # <<>> THEN GetFrame(g)
        ELSE IF Block(timeout) /\ (timeout.none \/ timeout.secs > 0)
        THEN [g EXCEPT !.pc = "waiting"]
        ELSE EmptyFrame(g)

(* Runs of a NonBlockingStreamReader.                                      *)

OutputLines == {"PLOP", "G"}

Timeouts == {NoTimeout, Seconds(0), Seconds(2)}

ReaderInputs == [lines : UNION {[1..k -> OutputLines] : k \in 1..MaxN}]

InitReader ==
    /\ args \in ReaderInputs
    /\ prim = [data |-> <<>>, unsent |-> args.lines, closed |-> FALSE]
    /\ frame = [p \in OneCall |-> NewReaderFrame]

\* The subprocess writes its next line to stdout.
XfoilWrites ==
    /\ prim.unsent # <<>>
    /\ prim' = [prim EXCEPT !.data = Append(@, Head(prim.unsent)), !.unsent = Tail(@)]
    /\ UNCHANGED <<args, frame>>

\* The subprocess ends and its stdout is closed.
XfoilExits ==
    /\ prim.unsent = <<>> /\ ~prim.closed
    /\ prim' = [prim EXCEPT !.closed = TRUE]
    /\ UNCHANGED <<args, frame>>

PopulateRead(p) ==
    /\ frame[p].t_pc = "readline"
    /\ prim.data # <<>> \/ (prim.closed /\ frame[p].eofs < MaxN)
    /\ frame' = [frame EXCEPT ![p] = PopulateReadFrame(frame[p], prim)]
    /\ prim' = [prim EXCEPT !.data = IF @ = <<>> THEN @ ELSE Tail(@)]
    /\ UNCHANGED args

PopulatePut(p) ==
    /\ frame[p].t_pc = "put"
    /\ frame' = [frame EXCEPT ![p] = PopulatePutFrame(frame[p])]
    /\ UNCHANGED <<args, prim>>

Readline(p) ==
    /\ frame[p].pc = "idle"
    /\ frame[p].calls <= MaxN
    /\ \E timeout \in Timeouts :
           frame' = [frame EXCEPT ![p] = ReadlineFrame(frame[p], timeout)]
    /\ UNCHANGED <<args, prim>>

\* A waiting get finds a line in the queue.
ReadlineWakes(p) ==
    /\ frame[p].pc = "waiting"
    /\ frame[p].q # <<>>
    /\ frame' = [frame EXCEPT ![p] = GetFrame(frame[p])]
    /\ UNCHANGED <<args, prim>>

\* The timeout of a waiting get has passed with the queue still empty.
ReadlineExpires(p) ==
    /\ frame[p].pc = "waiting"
    /\ ~frame[p].timeout.none /\ frame[p].waited >= frame[p].timeout.secs
    /\ frame[p].q = <<>>
    /\ frame' = [frame EXCEPT ![p] = EmptyFrame(frame[p])]
    /\ UNCHANGED <<args, prim>>

\* The clock advances while a get waits; a get with a timeout does not wait
\* past it.
Tick(p) ==
    /\ frame[p].pc = "waiting"
    /\ IF frame[p].timeout.none THEN frame[p].waited <= MaxN
       ELSE frame[p].waited < frame[p].timeout.secs
    /\ frame' = [frame EXCEPT ![p].waited = @ + 1]
    /\ UNCHANGED <<args, prim>>

NextReader ==
    \/ XfoilWrites
    \/ XfoilExits
    \/ \E p \in OneCall :
        \/ PopulateRead(p) \/ PopulatePut(p) \/ Readline(p) \/ ReadlineWakes(p)
        \/ ReadlineExpires(p) \/ Tick(p)

SpecReader == InitReader /\ [][NextReader]_vars

(* Properties of NonBlockingStreamReader.                                  *)

\* The lines among the values readline returned, in the order returned.
RECURSIVE LinesOf(_)
LinesOf(got) ==
    IF got = <<>> THEN <<>>
    ELSE IF got[1].none THEN LinesOf(Tail(got))
    ELSE <<got[1].line>> \o LinesOf(Tail(got))

\* C18: readline waits no longer than its timeout and not at all without
\* one; it returns None exactly when no line is queued by then, otherwise
\* the oldest line not yet returned; the lines returned, then those queued,
\* then the one the thread holds, are the lines read from the stream in order.
C18_ReadlineInOrder ==
    \A p \in OneCall :
        LET f == frame[p]
        IN  /\ f.pc = "waiting" => (~f.timeout.none /\ f.waited <= f.timeout.secs)
            /\ \A i \in 1..Len(f.got) : f.got[i].none <=> (f.got[i].queued = 0)
            /\ LinesOf(f.got) \o f.q \o (IF f.t_pc = "put" THEN <<f.line>> ELSE <<>>)
                   = f.read

C18_LinesAndNone ==
    \E p \in OneCall :
        /\ Len(frame[p].got) = 3 /\ frame[p].got[1].none
        /\ LinesOf(frame[p].got) = <<"PLOP", "G">>
        /\ frame[p].waited = 2

----------------------------------------------------------------------------
(* xfoil_module: output_reader with structure False.  A line of the file   *)
(* is the sequence of its characters; prim holds the file and the          *)
(* platform.                                                               *)

\* str.replace: every occurrence of pat, from the left, becomes rep.
RECURSIVE Replace(_, _, _)
Replace(s, pat, rep) ==
    IF Len(s) < Len(pat) THEN s
    ELSE IF SubSeq(s, 1, Len(pat)) = pat
    THEN rep \o Replace(SubSeq(s, Len(pat) + 1, Len(s)), pat, rep)
    ELSE <<s[1]>> \o Replace(Tail(s), pat, rep)

\* n copies of the text s.
Repeat(s, n) == [i \in 1..(n * Len(s)) |-> s[((i - 1) % Len(s)) + 1]]

\* A chain of replace calls, applied in the order of the list.
RECURSIVE ReplaceAll(_, _)
ReplaceAll(s, steps) ==
    IF steps = <<>> THEN s
    ELSE ReplaceAll(Replace(s, steps[1][1], steps[1][2]), Tail(steps))

\* str.split(' '), the empty pieces included.
RECURSIVE Split(_, _)
Split(s, piece) ==
    IF s = <<>> THEN <<piece>>
    ELSE IF s[1] = " " THEN <<piece>> \o Split(Tail(s), <<>>)
    ELSE Split(Tail(s), Append(piece, s[1]))

\* The pieces left once every '' has been removed.
NonEmptyPieces(s) == SelectSeq(Split(s, <<>>), LAMBDA c : c # <<>>)

\* " -".join(line.rsplit("-", 1)): a blank goes in front of the last '-'.
RECURSIVE SpaceBeforeLastMinus(_)
SpaceBeforeLastMinus(s) ==
    IF s = <<>> THEN <<>>
    ELSE IF s[Len(s)] = "-" THEN SubSeq(s, 1, Len(s) - 1) \o <<" ", "-">>
    ELSE Append(SpaceBeforeLastMinus(SubSeq(s, 1, Len(s) - 1)), s[Len(s)])

\* Lines 720-762: the names on the header line.
HeaderFields(line, sep) ==
    NonEmptyPieces(ReplaceAll(line,
        <<<<Repeat(sep, 6), <<" ">>>>, <<Repeat(sep, 5), <<" ">>>>,
          <<Repeat(sep, 4), <<" ">>>>, <<Repeat(sep, 3), <<" ">>>>,
          <<Repeat(sep, 2), <<" ">>>>, <<sep, <<" ">>>>, <<<<"\n">>, <<>>>>,
          <<<<"(", "k", "g", ")">>, <<>>>>, <<<<"(", "m", ")">>, <<>>>>,
          <<<<"(", "P", "a", ")">>, <<>>>>, <<<<"(", "i", "n", ")">>, <<>>>>,
          <<<<"#">>, <<>>>>>>))

\* Lines 776-808: the components of a data line.
DataFields(line, sep) ==
    NonEmptyPieces(SpaceBeforeLastMinus(ReplaceAll(line,
        <<<<Repeat(sep, 3), <<" ">>>>, <<Repeat(sep, 2), <<" ">>>>, <<sep, <<" ">>>>,
          <<<<"\n">>, <<>>>>, <<Repeat(<<"-">>, 9), <<>>>>, <<Repeat(<<"-">>, 8), <<>>>>,
          <<Repeat(<<"-">>, 7), <<>>>>, <<Repeat(<<"-">>, 6), <<>>>>>>)))

Digits == {"0", "1", "2", "3", "4", "5", "6", "7", "8", "9"}

DigitValue(c) == CHOOSE k \in 0..9 : DigitStr[k + 1] = c

RECURSIVE Decimal(_)
Decimal(s) == IF s = <<>> THEN 0 ELSE 10 * Decimal(SubSeq(s, 1, Len(s) - 1)) + DigitValue(s[Len(s)])

\* format_output for 'float': float(variable) of digits with an optional
\* sign; any other text raises.
format_output(variable) ==
    LET body == IF variable # <<>> /\ variable[1] = "-" THEN Tail(variable) ELSE variable
    IN  IF body = <<>> \/ \E i \in 1..Len(body) : body[i] \notin Digits
        THEN [ok |-> FALSE, value |-> 0]
        ELSE [ok |-> TRUE,
              value |-> IF body = variable THEN Decimal(body) ELSE 0 - Decimal(body)]

\* Lines 695-699, 767-773: Data[head] = [] for every head.
EmptyColumns(header) == [head \in {header[j] : j \in 1..Len(header)} |-> <<>>]

\* Lines 684-694: the rows to skip for the kind of file.
RowsToSkip(output, rows_to_skip, system) ==
    IF output \in {"Polar", "Alfa_L_0"} THEN 10
    ELSE IF output = "Dump" THEN 0
    ELSE IF output = "Cp" THEN (IF system = "Windows" THEN 2 ELSE 0)
    ELSE IF output = "Coordinates" THEN 1
    ELSE rows_to_skip

\* The locals of a call of output_reader that has not started.
NewOutputFrame ==
    [pc |-> "or_entry", exc |-> "none", rows_to_skip |-> 0, header |-> <<>>,
     header_done |-> FALSE, count_skip |-> 0, Data |-> <<>>, i |-> 1, ret |-> <<>>]

\* Lines 650-710: the rows to skip, the columns of a supplied header, the
\* file opened.
OutputEnterFrame(f, env) ==
    IF args.filename \notin DOMAIN env.files THEN Raise(f, "FileNotFoundError")
    ELSE [f EXCEPT !.rows_to_skip = RowsToSkip(args.output, args.rows_to_skip, env.system),
                   !.header = args.header.names,
                   !.header_done = args.header.given,
                   !.Data = IF args.header.given THEN EmptyColumns(args.header.names)
                            ELSE <<>>,
                   !.pc = "or_for"]

\* Lines 811-823 with a line that is too short passed over in silence.
RECURSIVE RecordLenient(_, _, _)
RECURSIVE RecordLine(_, _, _)
RecordLenient(f, line_components, j) ==
    IF j > Len(f.header) \/ j > Len(line_components) THEN [f EXCEPT !.i = @ + 1]
    ELSE LET v == format_output(line_components[j])
         IN  IF ~v.ok THEN Raise(f, "ValueError")
             ELSE RecordLenient([f EXCEPT !.Data[f.header[j]] = Append(@, v.value)],
                                line_components, j + 1)

\* Lines 811-823: one value of the line for every name of the header, or
\* ValueError when a component is missing or is not a number.
RecordLine(f, line_components, j) ==
    IF j > Len(f.header) THEN [f EXCEPT !.i = @ + 1]
    ELSE IF j > Len(line_components) THEN Raise(f, "ValueError")
    ELSE LET v == format_output(line_components[j])
         IN  IF ~v.ok THEN Raise(f, "ValueError")
             ELSE RecordLine([f EXCEPT !.Data[f.header[j]] = Append(@, v.value)],
                             line_components, j + 1)

\* Lines 712-881: one line of the file: skipped, read as the header, or
\* recorded as data.
OutputLineFrame(f, env) ==
    LET line == env.files[args.filename][f.i]
    IN  IF f.count_skip < f.rows_to_skip
        THEN [f EXCEPT !.count_skip = @ + 1, !.i = @ + 1]
        ELSE IF ~f.header_done
        THEN LET header == HeaderFields(line, args.separator)
             IN  [f EXCEPT !.header = header, !.Data = EmptyColumns(header),
                           !.header_done = TRUE, !.i = @ + 1]
        ELSE LET line_components == DataFields(line, args.separator)
             IN  IF line_components = <<>> THEN [f EXCEPT !.i = @ + 1]
                 ELSE RecordLine(f, line_components, 1)

\* Lines 882-886: the file removed when delete is set, Data returned.
OutputReturnFrame(f, env) ==
    [frame |-> [f EXCEPT !.ret = f.Data, !.pc = "returned"],
     env |-> IF args.delete THEN RemoveFile(env, args.filename) ELSE env]

(* Calls of output_reader.                                                 *)

\* Lines of a file: "1\t2", "1", "", "x\ty", "x x", "1-2", "------".
FileLines ==
    {<<"1", "\t", "2", "\n">>, <<"1", "\n">>, <<"\n">>, <<"x", "\t", "y", "\n">>,
     <<"x", " ", "x", "\n">>, <<"1", "-", "2", "\n">>,
     <<"-", "-", "-", "-", "-", "-", "\n">>}

\* header=0, or a list of names.
NoHeader == [given |-> FALSE, names |-> <<>>]
HeaderList(names) == [given |-> TRUE, names |-> names]

Headers ==
    {NoHeader, HeaderList(<<<<"x">>>>), HeaderList(<<<<"x">>, <<"y">>>>),
     HeaderList(<<<<"x">>, <<"x">>>>)}

\* The kind of file with the rows_to_skip passed along, and the platform.
SkipChoices ==
    {<<"None", 0, "Linux">>, <<"None", 1, "Linux">>, <<"Coordinates", 0, "Linux">>,
     <<"Cp", 0, "Windows">>, <<"Cp", 0, "Linux">>}

OutputReaderInputs ==
    { [filename |-> "test", separator |-> <<"\t">>, output |-> sk[1],
       rows_to_skip |-> sk[2], system |-> sk[3], header |-> h, delete |-> d,
       lines |-> ls] :
        sk \in SkipChoices, h \in Headers, d \in BOOLEAN,
        ls \in UNION {[1..k -> FileLines] : k \in 1..(MaxN + 1)} }

InitOutput ==
    /\ args \in {a \in OutputReaderInputs : a.delete => (a.output = "None" /\ a.rows_to_skip = 0)}
    /\ prim = [files |-> [m \in {args.filename} |-> args.lines], system |-> args.system]
    /\ frame = [p \in OneCall |-> NewOutputFrame]

OutputEnter(p) ==
    /\ frame[p].pc = "or_entry"
    /\ frame' = [frame EXCEPT ![p] = OutputEnterFrame(frame[p], prim)]
    /\ UNCHANGED <<args, prim>>

OutputLine(p) ==
    /\ frame[p].pc = "or_for"
    /\ frame[p].i <= Len(prim.files[args.filename])
    /\ frame' = [frame EXCEPT ![p] = OutputLineFrame(frame[p], prim)]
    /\ UNCHANGED <<args, prim>>

OutputReturn(p) ==
    /\ frame[p].pc = "or_for"
    /\ frame[p].i > Len(prim.files[args.filename])
    /\ frame' = [frame EXCEPT ![p] = OutputReturnFrame(frame[p], prim).frame]
    /\ prim' = OutputReturnFrame(frame[p], prim).env
    /\ UNCHANGED args

NextOutput == \E p \in OneCall : OutputEnter(p) \/ OutputLine(p) \/ OutputReturn(p)

SpecOutput == InitOutput /\ [][NextOutput]_vars

(* Properties of output_reader.                                            *)

\* The rows skipped, the header and the data lines of the file as the
\* arguments describe them.
SkippedRows == RowsToSkip(args.output, args.rows_to_skip, args.system)

HeaderNames ==
    IF args.header.given THEN args.header.names
    ELSE IF Len(args.lines) > SkippedRows
    THEN HeaderFields(args.lines[SkippedRows + 1], args.separator)
    ELSE <<>>

FirstDataLine == SkippedRows + (IF args.header.given THEN 1 ELSE 2)

\* The fields of the data lines that have any.
NonEmptyDataLines ==
    SelectSeq([i \in 1..(Len(args.lines) - FirstDataLine + 1) |->
                  DataFields(args.lines[FirstDataLine + i - 1], args.separator)],
              LAMBDA c : c # <<>>)

NameSet(names) == {names[j] : j \in 1..Len(names)}

Repeats(names, head) == Cardinality({j \in 1..Len(names) : names[j] = head})

\* C19 as stated: the keys are the header names, the supplied ones or those
\* of the first line after the skipped rows; every key holds one value per
\* non-empty data line; a data line with fewer fields than the header is
\* never passed over, it raises ValueError.
C19_OneValuePerLine ==
    \A p \in OneCall :
        /\ frame[p].pc = "returned" =>
            /\ DOMAIN frame[p].ret = NameSet(HeaderNames)
            /\ \A head \in NameSet(HeaderNames) :
                   Len(frame[p].ret[head]) = Len(NonEmptyDataLines)
            /\ \A n \in 1..Len(NonEmptyDataLines) :
                   Len(NonEmptyDataLines[n]) >= Len(HeaderNames)
        /\ frame[p].pc = "raised" => frame[p].exc = "ValueError"

\* C19 amended: as above, but a key holds one value per non-empty data line
\* for each time its name stands in the header; with names that are all
\* different the column of the j-th name holds the j-th field of every line.
C19_ValuesPerOccurrence ==
    \A p \in OneCall :
        /\ frame[p].pc = "returned" =>
            /\ DOMAIN frame[p].ret = NameSet(HeaderNames)
            /\ \A head \in NameSet(HeaderNames) :
                   Len(frame[p].ret[head])
                       = Repeats(HeaderNames, head) * Len(NonEmptyDataLines)
            /\ \A n \in 1..Len(NonEmptyDataLines) :
                   Len(NonEmptyDataLines[n]) >= Len(HeaderNames)
            /\ \A j \in 1..Len(HeaderNames) :
                   Repeats(HeaderNames, HeaderNames[j]) = 1 =>
                       \A n \in 1..Len(NonEmptyDataLines) :
                           frame[p].ret[HeaderNames[j]][n]
                               = format_output(NonEmptyDataLines[n][j]).value
        /\ frame[p].pc = "raised" => frame[p].exc = "ValueError"

C19_HeaderFromFile ==
    \E p \in OneCall :
        /\ frame[p].pc = "returned" /\ ~args.header.given
        /\ HeaderNames = <<<<"x">>, <<"y">>>>
        /\ frame[p].ret[<<"x">>] = <<1, 1>> /\ frame[p].ret[<<"y">>] = <<2, -2>>

----------------------------------------------------------------------------
(* Properties of the leading coefficients of the solver.                   *)

----------------------------------------------------------------------------
(* Properties of the chord, of the assembly and of the matrix of the solver. *)

\* The chord calculate_AC_u0 computed in the last pass of the loop, from the
\* value AC_u0 had before that pass.
LoopChord(f) ==
    calculate_c_baseline(args.c_P, <<f.before>> \o args.Au_C_1_to_n, args.Au_P, args.deltaz)

C22_LowerAssembly ==
    \A p \in OneCall :
        LET fr == frame[p]
            Al_C == fr.ret.Al_C
            Au_C == fr.ret.Au_C
        IN  fr.pc = "returned" =>
                /\ Len(Al_C) = fr.n + 1
                /\ Al_C[1] = fr.AC_l0
                /\ (args.morphing = "backwards" /\ AllFinite(fr.b_list)) =>
                       MatVec(BernsteinMatrix(fr.n, args.psi_spars),
                              [i \in 1..fr.n |-> RAdd(Al_C[i + 1], Au_C[i + 1])])
                           = fr.b_list
                /\ (args.morphing = "forwards" /\ AllFinite(fr.f)) =>
                       MatVec(BernsteinMatrix(fr.n, fr.psi_lower_children), Tail(Al_C))
                           = fr.f

C22_BackwardsSubtracted ==
    \E p \in OneCall :
        /\ frame[p].pc = "returned" /\ args.morphing = "backwards" /\ frame[p].n = MaxN
        /\ AllFinite(frame[p].b_list) /\ AllFinite(frame[p].ret.Al_C)
        /\ \A i \in 2..(MaxN + 1) : frame[p].ret.Au_C[i] # Zero
        /\ frame[p].ret.Al_C[2] # frame[p].ret.Al_C[3]

\* The binomial coefficient by Pascal's rule.
RECURSIVE Binomial(_, _)
Binomial(n, r) ==
    IF r < 0 \/ r > n THEN 0
    ELSE IF r = 0 \/ r = n THEN 1
    ELSE Binomial(n - 1, r - 1) + Binomial(n - 1, r)

\* The n by n matrix of the basis terms 1..n at the points pts.
BasisMatrix(n, pts) ==
    [j \in 1..n |-> [i \in 1..n |->
        RMul(Q(Binomial(n, i), 1),
             RMul(RPow(pts[j], i), RPow(RSub(One, pts[j]), n - i)))]]

\* C23: K(r, n) is the binomial coefficient for 0 <= r <= n, and the system
\* solved is the n by n one with entry (j, i) = C(n, i+1) p_j^(i+1)
\* (1-p_j)^(n-(i+1)), p the spar stations backwards and the psi coordinates
\* of the spars on the child's lower surface forwards.
C23_GoverningMatrix ==
    \A p \in OneCall :
        LET fr == frame[p]
            pts == IF args.morphing = "backwards" THEN args.psi_spars
                   ELSE fr.psi_lower_children
            rhs == IF args.morphing = "backwards" THEN fr.b_list ELSE fr.f
            x == IF args.morphing = "backwards"
                 THEN [i \in 1..fr.n |-> RAdd(fr.ret.Al_C[i + 1], fr.ret.Au_C[i + 1])]
                 ELSE Tail(fr.ret.Al_C)
        IN  /\ fr.pc = "returned" =>
                \A n \in 0..(MaxN + 1) : \A r \in 0..n : K(r, n) = Q(Binomial(n, r), 1)
            /\ (fr.pc = "returned" /\ AllFinite(rhs)) =>
                /\ Len(pts) = fr.n /\ Len(x) = fr.n
                /\ MatVec(BasisMatrix(fr.n, pts), x) = rhs

C23_ForwardsMappedPoints ==
    \E p \in OneCall :
        /\ frame[p].pc = "returned" /\ args.morphing = "forwards"
        /\ frame[p].n = MaxN
        /\ frame[p].psi_lower_children # args.psi_spars
        /\ AllFinite(frame[p].f) /\ AllFinite(frame[p].ret.Al_C)


----------------------------------------------------------------------------
(* A direction the solver does not know, and the direction not passed.     *)

\* The result of a call that has touched nothing of it yet.
NoResult == NewFrame.ret

\* C24: a call whose morphing is neither 'backwards' nor 'forwards' never
\* returns: it takes neither branch, leaves Al_C unbound, hands no tuple
\* back and ends only in an error; a call that does not pass morphing runs as
\* a backwards one.
C24_UnknownDirectionFails ==
    \A p \in OneCall :
        LET fr == frame[p] IN
        /\ args.morphing \notin {"backwards", "forwards"} =>
            /\ fr.pc \in {"entry", "while", "return", "raised"}
            /\ ~fr.Al_C_bound /\ fr.ret = NoResult
            /\ fr.pc = "raised" => fr.exc = "UnboundLocalError"
            /\ fr.pc = "return" => ReturnFrame(fr).pc = "raised"
        /\ args.passed = Omitted =>
            /\ args.morphing = "backwards"
            /\ fr.pc \notin {"fw_map", "fw_for"}
            /\ fr.psi_lower_children = <<>>

C24_ErrorAtReturn ==
    \E p \in OneCall :
        /\ args.passed = "sideways"
        /\ frame[p].pc = "raised" /\ frame[p].exc = "UnboundLocalError"
        /\ frame[p].Au_C # <<>>


----------------------------------------------------------------------------
(* find_coefficients with delete=True.                                     *)

\* C25: find_coefficients called with delete=True on a polar file that is
\* in outdir returns the rows read from it and leaves the file absent; it
\* does not fail on removing a file that is already gone.
C25_DeleteOnce ==
    \A p \in OneCall :
        (/\ args.op = "find_coefficients" /\ args.delete
         /\ frame[p].filename \in args.present
         /\ frame[p].pc \in {"returned", "raised"}) =>
            /\ frame[p].pc = "returned"
            /\ frame[p].ret = OldRows
            /\ ~isfile(prim, frame[p].filename)

============================================================================
